---- MODULE Spec2Model ----
(***************************************************************************)
(* The format-conversion pipeline of backend/src/services/mathpixService.ts *)
(* (class FormatConverter): preprocessContent -> splitQuestions ->          *)
(* convertQuestion -> join.                                                 *)
(*                                                                          *)
(* A string is a sequence of characters; a character is a one-character     *)
(* TLA+ string, and a non-ASCII character is named by its code point        *)
(* ("U+FF0E" is the fullwidth full stop).  Positions are 1-based here and   *)
(* 0-based in the source.                                                   *)
(***************************************************************************)
EXTENDS Integers, Sequences, FiniteSets, TLC

VARIABLES
    pc,                 \* position of the conversion call
    markdown,           \* convertToLatexFormat's argument
    converted,          \* the text after preprocessContent
    segInfo,            \* per segment: where splitQuestions took it from
    questionSegments,   \* the result of splitQuestions
    i,                  \* loop index of convertToLatexFormat (0-based)
    convertedQuestions, \* the entries pushed so far
    thrown,             \* the loop indices whose convertQuestion threw
    result,             \* the value convertToLatexFormat returns
    earlierSegments,    \* the result of the earlier splitQuestions
    question,           \* convertQuestion's argument content
    questionClean,      \* its cleanContent
    questionType,       \* its type
    questionConverted,  \* the value it returns
    calls,              \* per call of convertToLatexFormat: its local variables
    lastIndex,          \* lastIndex of the last expression tested under g
    throwing,           \* the segments on which convertQuestion throws
    optionList,         \* calculateOptimalColumns' argument options
    columns,            \* the value it returns
    reprocessed,        \* preprocessContent of the preprocessed text
    queue,              \* ProcessingQueue.queue: the tasks waiting, by number
    processing,         \* ProcessingQueue.processing
    taskState,          \* per task: where its execution stands
    outcome,            \* per task: how its promise settled
    promise,            \* per task: the promise that add returned
    startOrder,         \* the tasks in the order in which they were started
    waited,             \* whether add has left a task in the queue
    scanTask,           \* the entry of scanTasks for the one scan job
    fileType,           \* the job's fileType
    mathpix,            \* how the Mathpix service answered the job's requests
    response,           \* the last response of GET /result/:scanId
    batchTask,          \* the entry of batchTasks for the one batch
    files               \* batchTask.files

conversionVars == <<pc, markdown, converted, segInfo, questionSegments, i,
                    convertedQuestions, thrown, result, earlierSegments>>

questionVars == <<question, questionClean, questionType, questionConverted>>

callVars == <<calls, lastIndex, throwing>>

columnVars == <<optionList, columns>>

queueVars == <<queue, processing, taskState, outcome, promise, startOrder,
               waited>>

serviceVars == <<scanTask, fileType, mathpix, response, batchTask, files>>

\* the variables of the specifications that follow these
restVars == <<reprocessed, queueVars, serviceVars>>

\* what a call of convertToLatexFormat leaves alone
besideConversion == <<questionVars, callVars, columnVars, restVars>>

vars == <<conversionVars, questionVars, callVars, columnVars, restVars>>

-----------------------------------------------------------------------------
(* Characters and character classes of the regular expressions.            *)

Digit == {"0", "1", "2", "3", "4", "5", "6", "7", "8", "9"}
DigitChars == <<"0", "1", "2", "3", "4", "5", "6", "7", "8", "9">>
\* \s and what trim() strips
WhiteSpace == {" ", "\t", "\n", "\r", "U+00A0", "U+3000", "U+2028", "U+2029"}
\* what ^ and $ see under the m flag
LineTerminator == {"\n", "\r", "U+2028", "U+2029"}
\* [一二三四五六七八九十]
SectionNumeral == {"U+4E00", "U+4E8C", "U+4E09", "U+56DB", "U+4E94",
                   "U+516D", "U+4E03", "U+516B", "U+4E5D", "U+5341"}
\* [．\.\、]
NumberDelimiter == {"U+FF0E", ".", "U+3001"}
\* [（(] and [）)]
OpenParen == {"U+FF08", "("}
CloseParen == {"U+FF09", ")"}
Dollar == "$"

-----------------------------------------------------------------------------
(* String primitives.                                                      *)

\* the least and the greatest element of a set of positions, 0 if it is empty
Least(S) == IF S = {} THEN 0 ELSE CHOOSE x \in S : \A y \in S : x <= y
Greatest(S) == IF S = {} THEN 0 ELSE CHOOSE x \in S : \A y \in S : x >= y

\* the position before q, or n when there is no q
Before(q, n) == IF q = 0 THEN n ELSE q - 1

StartsWithAt(s, k, p) ==
    /\ k >= 1
    /\ k + Len(p) - 1 <= Len(s)
    /\ \A j \in 1..Len(p) : s[k + j - 1] = p[j]

\* String.prototype.indexOf(p, k): the first position >= k where p occurs, 0 if none
IndexOfFrom(s, p, k) ==
    Least({j \in k..(Len(s) - Len(p) + 1) : StartsWithAt(s, j, p)})

Includes(s, p) == IndexOfFrom(s, p, 1) > 0

\* the end of the maximal run of characters of class cls that starts at k
\* (k - 1 when the run is empty)
RunEnd(s, k, cls) ==
    IF k > Len(s) THEN k - 1
    ELSE Before(Least({j \in k..Len(s) : s[j] \notin cls}), Len(s))

NonSpace(s) == {j \in 1..Len(s) : s[j] \notin WhiteSpace}

\* String.prototype.trim
Trim(s) ==
    IF NonSpace(s) = {} THEN <<>>
    ELSE SubSeq(s, Least(NonSpace(s)), Greatest(NonSpace(s)))

\* the number of whitespace characters trim() strips at the front
LeadingSpace(s) == RunEnd(s, 1, WhiteSpace)

RECURSIVE ToDecimal(_)
ToDecimal(n) ==
    IF n < 10 THEN <<DigitChars[n + 1]>>
    ELSE ToDecimal(n \div 10) \o <<DigitChars[(n % 10) + 1]>>

DigitValue(c) == CHOOSE d \in 0..9 : DigitChars[d + 1] = c

RECURSIVE ParseInt(_)
ParseInt(ds) ==
    IF ds = <<>> THEN 0
    ELSE ParseInt(SubSeq(ds, 1, Len(ds) - 1)) * 10 + DigitValue(ds[Len(ds)])

\* Array.prototype.join
RECURSIVE Join(_, _)
Join(list, sep) ==
    IF list = <<>> THEN <<>>
    ELSE IF Len(list) = 1 THEN list[1]
    ELSE list[1] \o sep \o Join(Tail(list), sep)

-----------------------------------------------------------------------------
(* More string primitives.                                                 *)

LowerChars == <<"a", "b", "c", "d", "e", "f", "g", "h", "i", "j", "k", "l", "m",
                "n", "o", "p", "q", "r", "s", "t", "u", "v", "w", "x", "y", "z">>
UpperChars == <<"A", "B", "C", "D", "E", "F", "G", "H", "I", "J", "K", "L", "M",
                "N", "O", "P", "Q", "R", "S", "T", "U", "V", "W", "X", "Y", "Z">>
Letter == {LowerChars[k] : k \in 1..26} \cup {UpperChars[k] : k \in 1..26}
\* \w, the class that \b looks at
WordChar == Letter \cup Digit \cup {"_"}

\* case folding of the i flag
ToLower(c) ==
    IF \E k \in 1..26 : UpperChars[k] = c
    THEN LowerChars[CHOOSE k \in 1..26 : UpperChars[k] = c]
    ELSE c

StartsWithAtIgnoreCase(s, k, p) ==
    /\ k >= 1
    /\ k + Len(p) - 1 <= Len(s)
    /\ \A j \in 1..Len(p) : ToLower(s[k + j - 1]) = ToLower(p[j])

IndexOfFromIgnoreCase(s, p, k) ==
    Least({j \in k..(Len(s) - Len(p) + 1) : StartsWithAtIgnoreCase(s, j, p)})

\* the end of the maximal run of characters outside class cls that starts at k
RunEndNot(s, k, cls) ==
    IF k > Len(s) THEN k - 1
    ELSE Before(Least({j \in k..Len(s) : s[j] \in cls}), Len(s))

\* ^ under the m flag, seen before position k
LineStart(s, k) == k = 1 \/ s[k - 1] \in LineTerminator

\* $ under the m flag, seen after position e
LineEnd(s, e) == e = Len(s) \/ s[e + 1] \in LineTerminator

\* a greedy run over lo..e that must stop at a line end: the largest position
\* in lo-1..e with a line end after it, 0 if there is none (lo >= 2)
LastLineEnd(s, lo, e) == Greatest({j \in (lo - 1)..e : LineEnd(s, j)})

-----------------------------------------------------------------------------
(* The patterns of the source.  For a pattern pat, MatchEnd(s, k, pat) is   *)
(* the last position of its match that starts exactly at position k, and 0  *)
(* when it does not match there; no pattern matches the empty string.       *)

TokenSuffix == <<"_", "_">>
LatexBlockPrefix ==
    <<"_", "_", "L", "A", "T", "E", "X", "_", "B", "L", "O", "C", "K", "_">>
LatexInlinePrefix ==
    <<"_", "_", "L", "A", "T", "E", "X", "_", "I", "N", "L", "I", "N", "E", "_">>
ProtectedExponentPrefix ==
    <<"_", "_", "P", "R", "O", "T", "E", "C", "T", "E", "D", "_",
      "E", "X", "P", "O", "N", "E", "N", "T", "_">>
ProtectedNestedPrefix ==
    <<"_", "_", "P", "R", "O", "T", "E", "C", "T", "E", "D", "_",
      "N", "E", "S", "T", "E", "D", "_">>

TitleOpen == <<"\\", "t", "i", "t", "l", "e", "{">>
AuthorOpen == <<"\\", "a", "u", "t", "h", "o", "r", "{">>
SectionWord == <<"\\", "s", "e", "c", "t", "i", "o", "n">>
SectionOpen == <<"\\", "s", "e", "c", "t", "i", "o", "n", "*", "{">>
NotesOpen == SectionOpen \o <<"U+6CE8", "U+610F", "U+4E8B", "U+9879">>
SchoolWords == {<<"U+5B9E", "U+9A8C", "U+4E2D", "U+5B66">>,
                <<"U+80B2", "U+624D", "U+4E2D", "U+5B66">>,
                <<"U+5E08", "U+5927">>,
                <<"U+9644", "U+4E2D">>}
Channel == <<"U+516C", "U+4F17", "U+53F7">>
ChannelB == <<"U+FF08", "B", "U+FF09">> \o Channel
IdeographicStop == "U+3002"
Figure == "U+56FE"
Frac == <<"\\", "f", "r", "a", "c">>
Dfrac == <<"\\", "d", "f", "r", "a", "c">>
DfracOpen == <<"\\", "d", "f", "r", "a", "c", "{">>
ExponentOpen == <<"^", "{">>
Mathbf == <<"\\", "m", "a", "t", "h", "b", "f">>
Mathbb == <<"\\", "m", "a", "t", "h", "b", "b">>

\* A pattern without alternatives is matched piece by piece: each piece
\* takes the position p the match has reached (0: the match has failed) and
\* gives the position after the piece.  None of the pieces below has to give
\* anything back to the piece after it, unless its comment says so.

\* the character at position k, "" outside the string
At(s, k) == IF k >= 1 /\ k <= Len(s) THEN s[k] ELSE ""

\* a literal
Lit(s, p, word) == IF p = 0 \/ ~StartsWithAt(s, p, word) THEN 0 ELSE p + Len(word)
\* a literal under the i flag
LitIgnoreCase(s, p, word) ==
    IF p = 0 \/ ~StartsWithAtIgnoreCase(s, p, word) THEN 0 ELSE p + Len(word)
\* [cls]
One(s, p, cls) == IF p = 0 \/ At(s, p) \notin cls THEN 0 ELSE p + 1
\* [cls]?
Opt(s, p, cls) == IF p = 0 THEN 0 ELSE IF At(s, p) \in cls THEN p + 1 ELSE p
\* [cls]*
Run(s, p, cls) == IF p = 0 THEN 0 ELSE RunEnd(s, p, cls) + 1
\* [cls]{n,}
AtLeast(s, p, cls, n) ==
    IF p = 0 \/ RunEnd(s, p, cls) - p + 1 < n THEN 0 ELSE RunEnd(s, p, cls) + 1
\* [^cls]+
RunNot1(s, p, cls) ==
    IF p = 0 \/ p > Len(s) \/ At(s, p) \in cls THEN 0 ELSE RunEndNot(s, p, cls) + 1
\* [\s\S]*?word  and  [^c]*c  for a one-character word
UpTo(s, p, word) ==
    IF p = 0 \/ IndexOfFrom(s, word, p) = 0 THEN 0
    ELSE IndexOfFrom(s, word, p) + Len(word)
\* (?=[cls]) and (?![cls])
Ahead(s, p, cls) == IF p = 0 \/ At(s, p) \notin cls THEN 0 ELSE p
NotAhead(s, p, cls) == IF p = 0 \/ At(s, p) \in cls THEN 0 ELSE p
\* [^。]*$  and  \s*$  under the m flag: the run gives back until a line ends
ToLineEnd(s, p) ==
    IF p = 0 THEN 0 ELSE LastLineEnd(s, p, RunEndNot(s, p, {IdeographicStop}))
SpaceToLineEnd(s, p) ==
    IF p = 0 THEN 0 ELSE LastLineEnd(s, p, RunEnd(s, p, WhiteSpace))
\* the last position of a match that has reached p
End(p) == IF p = 0 THEN 0 ELSE p - 1

\* /\$\$[\s\S]*?\$\$/
BlockMathEnd(s, k) ==
    End(UpTo(s, Lit(s, k, <<Dollar, Dollar>>), <<Dollar, Dollar>>))

\* /\$[^$]*\$/
InlineMathEnd(s, k) == End(UpTo(s, Lit(s, k, <<Dollar>>), <<Dollar>>))

\* /prefix(\d+)__/  for the four placeholder prefixes
TokenEnd(s, k, prefix) ==
    End(Lit(s, AtLeast(s, Lit(s, k, prefix), Digit, 1), TokenSuffix))

\* /open[\s\S]*?\}/  for \title{ and \author{
BracedEnd(s, k, open) == End(UpTo(s, Lit(s, k, open), <<"}">>))

\* \\section\*\{注意事项：?\}  under the i flag: the end of the header
NotesHeaderEnd(s, k) ==
    End(One(s, Opt(s, LitIgnoreCase(s, k, NotesOpen), {"U+FF1A"}), {"}"}))

\* [\s\S]*?(?=\\section|$)  after a header that ends at h
NotesBodyEnd(s, h) ==
    IF h = 0 THEN 0
    ELSE Before(IndexOfFromIgnoreCase(s, SectionWord, h + 1), Len(s))

\* /\\section\*\{注意事项：?\}[\s\S]*?(?=\\section|$)/gi
NotesEnd(s, k) == NotesBodyEnd(s, NotesHeaderEnd(s, k))

\* /\\section\*\{[一二三四五六七八九十]、[^}]+\}/
SectionTitleEnd(s, k) ==
    End(One(s, RunNot1(s, One(s, One(s, Lit(s, k, SectionOpen), SectionNumeral),
                              {"U+3001"}),
                       {"}"}),
            {"}"}))

\* the line from k to the \n at nl holds one of the words
SchoolLineTo(s, k, nl) ==
    IF /\ LineStart(s, k)
       /\ nl > 0
       /\ \E w \in SchoolWords : \E j \in k..(nl - Len(w)) : StartsWithAt(s, j, w)
    THEN nl
    ELSE 0

\* /^[^\n]*(?:实验中学|育才中学|师大|附中)[\s\S]*?\n/m : the line that starts
\* at k holds one of the words and ends in \n
SchoolLineEnd(s, k) == SchoolLineTo(s, k, IndexOfFrom(s, <<"\n">>, k))

\* /word[^。]*。/
ToStopEnd(s, k, word) == End(UpTo(s, Lit(s, k, word), <<IdeographicStop>>))

\* /word[^。]*$/m
ToLineEndEnd(s, k, word) == ToLineEnd(s, Lit(s, k, word))

\* /图\s*$/m
FigureEnd(s, k) == SpaceToLineEnd(s, One(s, k, {Figure}))

\* /图\s*公众号[^。]*$/m
FigureChannelEnd(s, k) ==
    ToLineEnd(s, Lit(s, Run(s, One(s, k, {Figure}), WhiteSpace), Channel))

\* [^}]*\\frac[^}]*\}  : \frac lies before the first closing brace
FracThenClose(frac, close) ==
    IF close > 0 /\ frac > 0 /\ frac + Len(Frac) - 1 < close THEN close ELSE 0

FracGroupFrom(s, from) ==
    IF from = 0 THEN 0
    ELSE FracThenClose(IndexOfFrom(s, Frac, from), IndexOfFrom(s, <<"}">>, from))

\* /open[^}]*\\frac[^}]*\}/  for ^{ and \dfrac{
FracGroupEnd(s, k, open) == FracGroupFrom(s, Lit(s, k, open))

\* /word\b/  for a word that ends in a letter
WordEnd(s, k, word) == End(NotAhead(s, Lit(s, k, word), WordChar))

\* /[（(]\d+[）)]/
SubMarkerEnd(s, k) ==
    End(One(s, AtLeast(s, One(s, k, OpenParen), Digit, 1), CloseParen))

Points == "U+5206"
FullMarks == <<"U+672C", "U+5C0F", "U+9898", "U+6EE1", "U+5206">>

\* [（(]\s*\d+\s*分\s*[）)]  as a piece
Score(s, p) ==
    One(s, Run(s, One(s, Run(s, AtLeast(s, Run(s, One(s, p, OpenParen),
                                               WhiteSpace),
                                        Digit, 1),
                             WhiteSpace),
                      {Points}),
               WhiteSpace),
        CloseParen)

\* /[（(]\s*\d+\s*分\s*[）)]/
ScoreEnd(s, k) == End(Score(s, k))

\* /[（(]本小题满分\s*\d+\s*分[）)]/
FullScoreEnd(s, k) ==
    End(One(s, One(s, Run(s, AtLeast(s, Run(s, Lit(s, One(s, k, OpenParen),
                                                   FullMarks),
                                            WhiteSpace),
                                     Digit, 1),
                          WhiteSpace),
                   {Points}),
            CloseParen))

\* /\b\d+\s*分\b/ : no word character before the digits, one after 分
BareScoreEnd(s, k) ==
    IF At(s, k - 1) \in WordChar THEN 0
    ELSE End(Ahead(s, One(s, Run(s, AtLeast(s, k, Digit, 1), WhiteSpace),
                          {Points}),
                   WordChar))

\* \d+[．\.\、]\s*  as a piece
NumberPrefix(s, p) ==
    Run(s, One(s, AtLeast(s, p, Digit, 1), NumberDelimiter), WhiteSpace)

\* (\d+[．\.\、]\s*)  at k: the end of the group, 0 if none
NumberPrefixEnd(s, k) == End(NumberPrefix(s, k))

\* /^(\d+[．\.\、]\s*)[（(]\s*\d+\s*分\s*[）)]\s*/gm
LeadScoreEnd(s, k) ==
    IF LineStart(s, k)
    THEN End(Run(s, Score(s, NumberPrefix(s, k)), WhiteSpace))
    ELSE 0

\* /\s*[（(]\s*\d+\s*分\s*[）)]\s*$/gm
TrailScoreEnd(s, k) == SpaceToLineEnd(s, Score(s, Run(s, k, WhiteSpace)))

\* /\s*[（(]\s*\d+\s*分\s*[）)]\s*/g
MidScoreEnd(s, k) == End(Run(s, Score(s, Run(s, k, WhiteSpace)), WhiteSpace))

ImageOpen == <<"[", "I", "M", "A", "G", "E", "_">>
TableOpen == <<"[", "T", "A", "B", "L", "E", "_">>
Underlines == <<"\\", "u", "n", "d", "e", "r", "l", "i", "n", "e", "s">>
EscapedBlank == <<"\\", "_", "\\", "_", "\\", "_", "\\", "_">>
InlineEscapedBlank == <<Dollar>> \o EscapedBlank \o <<Dollar>>
BlockEscapedBlank == <<Dollar, Dollar>> \o EscapedBlank \o <<Dollar, Dollar>>

\* /\[IMAGE_\d+\]/ and /\[TABLE_\d+\]/
TagEnd(s, k, open) == End(One(s, AtLeast(s, Lit(s, k, open), Digit, 1), {"]"}))

\* a literal
LiteralEnd(s, k, word) == End(Lit(s, k, word))

\* /open_{3,}close/  for no delimiters, $ ... $, $$ ... $$ and \\ ... nothing
BlankEnd(s, k, open, close) ==
    End(Lit(s, AtLeast(s, Lit(s, k, open), {"_"}, 3), close))

\* _{3,}(?!\$)  over the underscores u..e: the run gives one back when a
\* dollar follows it
BlankRunEnd(s, u, e) ==
    IF At(s, e + 1) = Dollar
    THEN (IF e - u >= 3 THEN e - 1 ELSE 0)
    ELSE (IF e - u + 1 >= 3 THEN e ELSE 0)

\* /(?<!\$)\\?_{3,}(?!\$)/
PlainBlankEnd(s, k) ==
    IF At(s, k - 1) = Dollar THEN 0
    ELSE BlankRunEnd(s, Opt(s, k, {"\\"}),
                     RunEnd(s, Opt(s, k, {"\\"}), {"_"}))

\* /\\[a-zA-Z]+\{[^}]*\}/
CommandEnd(s, k) ==
    End(UpTo(s, One(s, AtLeast(s, One(s, k, {"\\"}), Letter, 1), {"{"}),
             <<"}">>))

\* /（\s*）/ and /\(\s*\)/ : word holds the two parentheses
EmptyParenEnd(s, k, word) ==
    End(One(s, Run(s, One(s, k, {word[1]}), WhiteSpace), {word[2]}))

MatchEnd(s, k, pat) ==
    CASE pat.kind = "blockMath" -> BlockMathEnd(s, k)
      [] pat.kind = "inlineMath" -> InlineMathEnd(s, k)
      [] pat.kind = "token" -> TokenEnd(s, k, pat.word)
      [] pat.kind = "braced" -> BracedEnd(s, k, pat.word)
      [] pat.kind = "notes" -> NotesEnd(s, k)
      [] pat.kind = "sectionTitle" -> SectionTitleEnd(s, k)
      [] pat.kind = "schoolLine" -> SchoolLineEnd(s, k)
      [] pat.kind = "toStop" -> ToStopEnd(s, k, pat.word)
      [] pat.kind = "toLineEnd" -> ToLineEndEnd(s, k, pat.word)
      [] pat.kind = "figure" -> FigureEnd(s, k)
      [] pat.kind = "figureChannel" -> FigureChannelEnd(s, k)
      [] pat.kind = "fracGroup" -> FracGroupEnd(s, k, pat.word)
      [] pat.kind = "word" -> WordEnd(s, k, pat.word)
      [] pat.kind = "subMarker" -> SubMarkerEnd(s, k)
      [] pat.kind = "score" -> ScoreEnd(s, k)
      [] pat.kind = "fullScore" -> FullScoreEnd(s, k)
      [] pat.kind = "bareScore" -> BareScoreEnd(s, k)
      [] pat.kind = "leadScore" -> LeadScoreEnd(s, k)
      [] pat.kind = "trailScore" -> TrailScoreEnd(s, k)
      [] pat.kind = "midScore" -> MidScoreEnd(s, k)
      [] pat.kind = "tag" -> TagEnd(s, k, pat.word)
      [] pat.kind = "literal" -> LiteralEnd(s, k, pat.word)
      [] pat.kind = "blank" -> BlankEnd(s, k, pat.word, pat.word)
      [] pat.kind = "slashBlank" -> BlankEnd(s, k, pat.word, <<>>)
      [] pat.kind = "plainBlank" -> PlainBlankEnd(s, k)
      [] pat.kind = "command" -> CommandEnd(s, k)
      [] pat.kind = "emptyParen" -> EmptyParenEnd(s, k, pat.word)

Pattern(kind) == [kind |-> kind, word |-> <<>>]
PatternOf(kind, word) == [kind |-> kind, word |-> word]

\* the start of the leftmost match at or after k, 0 if there is none
NextMatch(s, k, pat) == Least({j \in k..Len(s) : MatchEnd(s, j, pat) > 0})

\* pattern.test(s)
Test(s, pat) == NextMatch(s, 1, pat) > 0

\* s.replace(pattern, by) under the g flag, from position k on; m is the
\* start of the leftmost match at or after k.  Behind the end of the text
\* nothing is left to match, here and in the loops below
RECURSIVE ReplaceFrom(_, _, _, _)
ReplaceAt(s, k, m, pat, by) ==
    IF m = 0 THEN SubSeq(s, k, Len(s))
    ELSE SubSeq(s, k, m - 1) \o by
             \o ReplaceFrom(s, MatchEnd(s, m, pat) + 1, pat, by)

ReplaceFrom(s, k, pat, by) ==
    IF k > Len(s) THEN <<>>
    ELSE ReplaceAt(s, k, NextMatch(s, k, pat), pat, by)

ReplaceAll(s, pat, by) == ReplaceFrom(s, 1, pat, by)
RemoveAll(s, pat) == ReplaceFrom(s, 1, pat, <<>>)

\* a run of replace calls, each on the result of the one before; no
\* pattern matches in the empty string
Replace(pat, by) == [pat |-> pat, by |-> by]
Remove(pat) == [pat |-> pat, by |-> <<>>]
RECURSIVE ReplaceEach(_, _)
ReplaceEach(s, steps) ==
    IF s = <<>> \/ steps = <<>> THEN s
    ELSE ReplaceEach(ReplaceAll(s, Head(steps).pat, Head(steps).by), Tail(steps))

\* s.match(pattern) under the g flag: the number of matches
RECURSIVE CountFrom(_, _, _)
CountAt(s, m, pat) ==
    IF m = 0 THEN 0 ELSE 1 + CountFrom(s, MatchEnd(s, m, pat) + 1, pat)

CountFrom(s, k, pat) ==
    IF k > Len(s) THEN 0 ELSE CountAt(s, NextMatch(s, k, pat), pat)

-----------------------------------------------------------------------------
(* Placeholders: protection and restoration.                               *)

\* `__LATEX_BLOCK_${n}__` and its siblings
Token(prefix, n) == prefix \o ToDecimal(n) \o TokenSuffix

\* one match replaced by its token, in front of the rest
Protected(head, token, rest) ==
    [text |-> head \o token \o rest.text, list |-> rest.list]

\* s.replace(pattern, match => { list.push(match);
\*                               return `${prefix}${list.length - 1}__` })
\* from position k on; m..e is the leftmost match at or after k
RECURSIVE ProtectFrom(_, _, _, _, _)
ProtectAt(s, k, m, e, pat, prefix, list) ==
    IF m = 0 THEN [text |-> SubSeq(s, k, Len(s)), list |-> list]
    ELSE Protected(SubSeq(s, k, m - 1), Token(prefix, Len(list)),
                   ProtectFrom(s, e + 1, pat, prefix,
                               Append(list, SubSeq(s, m, e))))

ProtectSpan(s, k, m, pat, prefix, list) ==
    ProtectAt(s, k, m, MatchEnd(s, m, pat), pat, prefix, list)

ProtectFrom(s, k, pat, prefix, list) ==
    IF k > Len(s) THEN [text |-> <<>>, list |-> list]
    ELSE ProtectSpan(s, k, NextMatch(s, k, pat), pat, prefix, list)

\* list[parseInt(index)] || ''
Entry(list, index) == IF index < Len(list) THEN list[index + 1] ELSE <<>>

\* s.replace(/prefix(\d+)__/g, (_, index) => list[parseInt(index)] || '')
\* from position k on; m..e is the leftmost token at or after k
RECURSIVE RestoreFrom(_, _, _, _)
RestoreAt(s, k, m, e, prefix, list) ==
    IF m = 0 THEN SubSeq(s, k, Len(s))
    ELSE SubSeq(s, k, m - 1)
             \o Entry(list, ParseInt(SubSeq(s, m + Len(prefix),
                                            e - Len(TokenSuffix))))
             \o RestoreFrom(s, e + 1, prefix, list)

RestoreSpan(s, k, m, prefix, list) ==
    RestoreAt(s, k, m, TokenEnd(s, m, prefix), prefix, list)

RestoreFrom(s, k, prefix, list) ==
    IF k > Len(s) THEN <<>>
    ELSE RestoreSpan(s, k, NextMatch(s, k, PatternOf("token", prefix)),
                     prefix, list)

RestoreTokens(s, prefix, list) == RestoreFrom(s, 1, prefix, list)

\* the second protection pass of splitQuestions
ProtectInline(b) ==
    ProtectFrom(b.text, 1, Pattern("inlineMath"), LatexInlinePrefix, b.list)

\* a splitQuestions that splits the text as it stands, math included
SplitUnprotected(content) == [text |-> content, list |-> <<>>]

\* the two protection passes of splitQuestions, block math first
ProtectMath(content) ==
    ProtectInline(ProtectFrom(content, 1, Pattern("blockMath"),
                              LatexBlockPrefix, <<>>))

\* the two restoration passes of splitQuestions, block tokens first
RestoreMath(s, list) ==
    RestoreTokens(RestoreTokens(s, LatexBlockPrefix, list),
                  LatexInlinePrefix, list)

-----------------------------------------------------------------------------
(* String.prototype.split with the two line-anchored patterns.             *)

\* ([一二三四五六七八九十]+)．  at k: the end of the match, 0 if none
SectionBodyEnd(s, k) ==
    End(One(s, AtLeast(s, k, SectionNumeral, 1), {"U+FF0E"}))

\* (\d+)[．\.\、]\s*  at k: the end of the match, 0 if none
QuestionBodyEnd(s, k) == End(NumberPrefix(s, k))

BodyEnd(s, k, kind) ==
    IF kind = "section" THEN SectionBodyEnd(s, k) ELSE QuestionBodyEnd(s, k)

\* a match that ends at end and whose number starts at from
Marker(s, from, end, kind) ==
    [end |-> end, capFrom |-> from,
     capTo |-> RunEnd(s, from, IF kind = "section" THEN SectionNumeral ELSE Digit)]

\* /(?:^|\n)body/gm  matched exactly at k: the end of the match and the
\* captured number, end = 0 if none
MarkerAt(s, k, kind) ==
    IF LineStart(s, k) /\ BodyEnd(s, k, kind) > 0
    THEN Marker(s, k, BodyEnd(s, k, kind), kind)
    ELSE IF s[k] = "\n" /\ BodyEnd(s, k + 1, kind) > 0
    THEN Marker(s, k + 1, BodyEnd(s, k + 1, kind), kind)
    ELSE [end |-> 0, capFrom |-> 0, capTo |-> 0]

\* the start of the leftmost match at or after k, 0 if there is none
NextMarker(s, k, kind) == Least({j \in k..Len(s) : MarkerAt(s, j, kind).end > 0})

\* s.split(pattern): the pieces between the matches alternate with the
\* captured numbers; start is the 0-based offset of the piece in s.
\* q is the start of the leftmost match m at or after p
RECURSIVE SplitFrom(_, _, _)
SplitAt(s, p, q, m, kind) ==
    IF q = 0 THEN <<[text |-> SubSeq(s, p, Len(s)), start |-> p - 1]>>
    ELSE <<[text |-> SubSeq(s, p, q - 1), start |-> p - 1],
           [text |-> SubSeq(s, m.capFrom, m.capTo), start |-> m.capFrom - 1]>>
         \o SplitFrom(s, m.end + 1, kind)

SplitMatch(s, p, q, kind) ==
    SplitAt(s, p, q, IF q = 0 THEN q ELSE MarkerAt(s, q, kind), kind)

SplitFrom(s, p, kind) == SplitMatch(s, p, NextMarker(s, p, kind), kind)

Split(s, kind) == SplitFrom(s, 1, kind)

\* the number of matches of the pattern that split finds in s
MarkerCount(s, kind) == (Len(Split(s, kind)) - 1) \div 2

-----------------------------------------------------------------------------
(* preprocessContent.                                                      *)

\* the replacement and the two restoration passes, exponents first
ReplaceAndRestore(exponents, nested) ==
    RestoreTokens(
        RestoreTokens(ReplaceAll(nested.text, PatternOf("word", Frac), Dfrac),
                      ProtectedExponentPrefix, exponents.list),
        ProtectedNestedPrefix, nested.list)

\* the second protection pass: \dfrac{...\frac...}
ProtectNested(exponents) ==
    ReplaceAndRestore(exponents,
        ProtectFrom(exponents.text, 1, PatternOf("fracGroup", DfracOpen),
                    ProtectedNestedPrefix, <<>>))

replaceTopLevelFrac(content) ==
    ProtectNested(ProtectFrom(content, 1, PatternOf("fracGroup", ExponentOpen),
                              ProtectedExponentPrefix, <<>>))

replaceLatexCommands(content) ==
    ReplaceAll(replaceTopLevelFrac(content), PatternOf("word", Mathbf), Mathbb)

\* the removals that both versions of preprocessContent make
StripNoise(content) ==
    ReplaceEach(content,
        <<Remove(PatternOf("braced", TitleOpen)),
          Remove(PatternOf("braced", AuthorOpen)),
          Remove(Pattern("notes")),
          Remove(Pattern("sectionTitle")),
          Remove(Pattern("schoolLine"))>>)

\* the removals that the later version added
StripChannel(cleaned) ==
    ReplaceEach(cleaned,
        <<Remove(PatternOf("toStop", Channel)),
          Remove(PatternOf("toStop", ChannelB)),
          Remove(PatternOf("toLineEnd", Channel)),
          Remove(PatternOf("toLineEnd", ChannelB)),
          Remove(Pattern("figure")),
          Remove(Pattern("figureChannel"))>>)

preprocessContent(content) ==
    Trim(replaceLatexCommands(StripChannel(StripNoise(content))))

\* preprocessContent of the earlier version
preprocessContentEarlier(content) == Trim(StripNoise(content))

-----------------------------------------------------------------------------
(* Sub-question markers and the problem block.                             *)

ItemPrefix == <<"\\", "i", "t", "e", "m", " ">>
ItemMarker == <<"\\", "i", "t", "e", "m">>
BeginProblem ==
    <<"\\", "b", "e", "g", "i", "n", "{", "p", "r", "o", "b", "l", "e", "m", "}", "\n">>
EndProblem ==
    <<"\n", "\\", "e", "n", "d", "{", "p", "r", "o", "b", "l", "e", "m", "}">>

\* /[（(]\d+[）)]/.test(s)
HasSubQuestions(s) == Test(s, Pattern("subMarker"))

\* the last position of a lazy  .+?  that starts at t and stops before the
\* next sub-question marker or at the end of the string (flags gs)
LazyBodyEnd(s, t) ==
    Least({u \in t..Len(s) : u = Len(s) \/ SubMarkerEnd(s, u + 1) > 0})

\* group 2 starts at t
SubQuestionBody(s, t) == [ok |-> TRUE, from |-> t, to |-> LazyBodyEnd(s, t)]

\* \s*(.+?)  after a marker that ends at e and whitespace that ends at w:
\* the whitespace gives one character back when it runs to the end
SubQuestionAfter(s, e, w) ==
    IF e = 0 \/ e = Len(s) THEN [ok |-> FALSE, from |-> 0, to |-> 0]
    ELSE SubQuestionBody(s, IF w = Len(s) THEN Len(s) ELSE w + 1)

SubQuestionFrom(s, e) == SubQuestionAfter(s, e, RunEnd(s, e + 1, WhiteSpace))

\* /[（(](\d+)[）)]\s*(.+?)(?=[（(]\d+[）)]|$)/gs  matched at k:
\* [ok, from, to] where from..to is group 2 and to is the end of the match
SubQuestionAt(s, k) == SubQuestionFrom(s, SubMarkerEnd(s, k))

NextSubQuestion(s, k) == Least({j \in k..Len(s) : SubQuestionAt(s, j).ok})

\* if (questionContent) push(`\\item ${questionContent}`)
ItemOf(questionContent) ==
    IF questionContent = <<>> THEN <<>> ELSE <<ItemPrefix \o questionContent>>

\* the exec loop over the sub-question pattern: the trimmed, non-empty
\* bodies, each behind an item marker
RECURSIVE SubQuestionItems(_, _)
ItemsWith(s, m) ==
    ItemOf(Trim(SubSeq(s, m.from, m.to))) \o SubQuestionItems(s, m.to + 1)

ItemsAt(s, q) == IF q = 0 THEN <<>> ELSE ItemsWith(s, SubQuestionAt(s, q))

SubQuestionItems(s, k) == ItemsAt(s, NextSubQuestion(s, k))

\* the stem before the first marker at position first, and the sub-questions
StemBefore(content, first) ==
    IF first = 0 THEN [stem |-> content, subQuestions |-> <<>>]
    ELSE [stem |-> Trim(SubSeq(content, 1, first - 1)),
          subQuestions |-> SubQuestionItems(content, 1)]

separateStemAndSubQuestions(content) ==
    StemBefore(content, NextMatch(content, 1, Pattern("subMarker")))

\* stem, blank line, \begin{problem}, one item per line, \end{problem}
ProblemBlock(stem, subQuestions) ==
    stem \o (IF Trim(stem) # <<>> THEN <<"\n", "\n">> ELSE <<>>)
         \o BeginProblem \o Join(subQuestions, <<"\n">>) \o EndProblem

\* the problem block when there are sub-questions, otherwise whole
BlockOrElse(parts, whole) ==
    IF parts.subQuestions = <<>> THEN whole
    ELSE ProblemBlock(parts.stem, parts.subQuestions)

convertQuestionWithSubProblems(content) ==
    BlockOrElse(separateStemAndSubQuestions(content), ItemPrefix \o content)

-----------------------------------------------------------------------------
(* splitQuestions, the later version.                                      *)

MinContentLength == 10

\* the entry of one retained question.  part is the trimmed text as split
\* saw it (placeholders in place), start its 0-based offset in the protected
\* content, section the number of the section it was found in (0: before the
\* first section marker), restored the text after the placeholders are put
\* back, segment the entry pushed to questions.
QuestionRecord(part, start, sec, restoredContent) ==
    [part |-> part, start |-> start, section |-> sec,
     restored |-> restoredContent,
     segment |-> IF HasSubQuestions(restoredContent)
                 THEN convertQuestionWithSubProblems(restoredContent)
                 ELSE ItemPrefix \o restoredContent]

\* one pass of the loop over questionParts
Retain(questionContent, part, base, sec, list, out) ==
    IF Len(part) > MinContentLength
    THEN Append(out, QuestionRecord(part,
                         base + questionContent.start
                              + LeadingSpace(questionContent.text),
                         sec, RestoreMath(part, list)))
    ELSE out

\* the loop over questionParts[1], questionParts[3], ...
RECURSIVE QuestionLoop(_, _, _, _, _, _)
QuestionLoop(questionParts, j, base, sec, list, out) ==
    IF j + 1 > Len(questionParts) THEN out
    ELSE QuestionLoop(questionParts, j + 2, base, sec, list,
             Retain(questionParts[j + 1], Trim(questionParts[j + 1].text),
                    base, sec, list, out))

\* a loop over questionParts that also takes the text before the first marker
QuestionsWithPreamble(text, base, sec, list) ==
    QuestionLoop(Split(text, "question"), 0, base, sec, list, <<>>)

\* the questions of one stretch of text (the content before the first
\* section marker, or one section's content) that starts at offset base
QuestionsOf(text, base, sec, list) ==
    QuestionLoop(Split(text, "question"), 2, base, sec, list, <<>>)

\* the loop over sections[1], sections[3], ...
RECURSIVE SectionLoop(_, _, _, _)
SectionLoop(sections, k, list, out) ==
    IF k + 1 > Len(sections) THEN out
    ELSE SectionLoop(sections, k + 2, list,
             IF Len(Trim(sections[k + 1].text)) > MinContentLength
             THEN out \o QuestionsOf(sections[k + 1].text,
                                     sections[k + 1].start, k \div 2, list)
             ELSE out)

\* the questions of the content before the first section marker
BeforeFirstSection(first, list) ==
    IF Len(Trim(first.text)) > MinContentLength
    THEN QuestionsOf(Trim(first.text), LeadingSpace(first.text), 0, list)
    ELSE <<>>

\* the questions of the sections put before those of the leading content
SectionsFirst(sections, list) ==
    SectionLoop(sections, 2, list, <<>>) \o BeforeFirstSection(sections[1], list)

SectionRecords(sections, list) ==
    SectionLoop(sections, 2, list, BeforeFirstSection(sections[1], list))

ProtectedRecords(prot) == SectionRecords(Split(prot.text, "section"), prot.list)

\* the entries the two loops push, with the provenance of every entry
NumberedRecords(content) == ProtectedRecords(ProtectMath(content))

\* the fallback entry: the whole text as one question
WholeText(content) ==
    <<[part |-> Trim(content), start |-> LeadingSpace(content), section |-> 0,
       restored |-> Trim(content), segment |-> ItemPrefix \o Trim(content)]>>

\* a splitQuestions that has no fallback
NoFallback(questions, content) == questions

\* the fallback of splitQuestions
OrWholeText(questions, content) ==
    IF questions = <<>> /\ Len(Trim(content)) > MinContentLength
    THEN WholeText(content)
    ELSE questions

\* splitQuestions with the provenance of every entry
SplitRecords(content) == OrWholeText(NumberedRecords(content), content)

Segments(records) == [k \in 1..Len(records) |-> records[k].segment]

splitQuestions(content) == Segments(SplitRecords(content))

-----------------------------------------------------------------------------
(* splitQuestions, the earlier version.                                    *)

RECURSIVE EarlierLoop(_, _, _)
EarlierLoop(parts, j, out) ==
    IF j + 1 > Len(parts) THEN out
    ELSE EarlierLoop(parts, j + 2,
             IF Len(Trim(parts[j + 1].text)) > MinContentLength
             THEN Append(out, Trim(parts[j + 1].text))
             ELSE out)

\* the fallback of the earlier splitQuestions
OrWholeTextEarlier(questions, content) ==
    IF questions = <<>> /\ Len(Trim(content)) > MinContentLength
    THEN <<Trim(content)>>
    ELSE questions

splitQuestionsEarlier(content) ==
    IF HasSubQuestions(content) THEN <<Trim(content)>>
    ELSE OrWholeTextEarlier(EarlierLoop(Split(content, "question"), 2, <<>>),
                            content)

-----------------------------------------------------------------------------
(* removeScoreInfo.                                                        *)

\* s.replace(/^(\d+[．\.\、]\s*)[（(]\s*\d+\s*分\s*[）)]\s*/gm, '$1')
RECURSIVE KeepNumberFrom(_, _)
KeepNumberAt(s, k, m) ==
    IF m = 0 THEN SubSeq(s, k, Len(s))
    ELSE SubSeq(s, k, NumberPrefixEnd(s, m))
             \o KeepNumberFrom(s, LeadScoreEnd(s, m) + 1)

KeepNumberFrom(s, k) ==
    IF k > Len(s) THEN <<>>
    ELSE KeepNumberAt(s, k, NextMatch(s, k, Pattern("leadScore")))

removeScoreInfo(content) ==
    Trim(ReplaceEach(
        KeepNumberFrom(
            ReplaceEach(Trim(content),
                <<Remove(Pattern("fullScore")),
                  Remove(Pattern("score")),
                  Remove(Pattern("bareScore"))>>),
            1),
        <<Remove(Pattern("trailScore")),
          Replace(Pattern("midScore"), <<" ">>)>>))

-----------------------------------------------------------------------------
(* detectQuestionType.                                                     *)

OptionLetter == {"A", "B", "C", "D"}
\* [．\.\)、]
OptionDelimiter == {"U+FF0E", ".", ")", "U+3001"}
\* [:：], [．。], [，,] and [为是]
Colon == {":", "U+FF1A"}
Stop == {"U+FF0E", "U+3002"}
Comma == {"U+FF0C", ","}
IsWord == {"U+4E3A", "U+662F"}
Then == "U+5219"
If == "U+82E5"
Find == "U+6C42"
ValueIs == <<"U+7684", "U+503C", "U+4E3A">>
Compute == <<"U+8BA1", "U+7B97">>
MultipleWords == {<<"U+591A", "U+9009">>,
                  <<"U+4E0D", "U+5B9A", "U+9879", "U+9009", "U+62E9">>,
                  <<"U+591A", "U+9879", "U+9009", "U+62E9">>}

\* /[A-D][．\.\)、]\s*[^\n]+/.test(s): after the delimiter some character
\* other than \n is reached over whitespace
HasOptions(s) ==
    \E k \in 1..Len(s) :
        /\ s[k] \in OptionLetter
        /\ At(s, k + 1) \in OptionDelimiter
        /\ \E j \in (k + 2)..(RunEnd(s, k + 2, WhiteSpace) + 1) :
              j <= Len(s) /\ s[j] # "\n"

NonSpaceFrom(s, p) == {j \in p..Len(s) : s[j] \notin WhiteSpace}

\* \s*[．。]?\s*$  from position p on (no m flag: $ is the end of the string)
TailOnly(s, p) ==
    \/ NonSpaceFrom(s, p) = {}
    \/ /\ Cardinality(NonSpaceFrom(s, p)) = 1
       /\ \A j \in NonSpaceFrom(s, p) : s[j] \in Stop

\* .{0,n}  fills the positions strictly between a and b
Dots(s, a, b, n) ==
    /\ b > a
    /\ b - a - 1 <= n
    /\ \A j \in (a + 1)..(b - 1) : s[j] \notin LineTerminator

\* the positions b > a that  .{0,n}  started after a can be followed at
Reach(s, a, n) == {b \in (a + 1)..Len(s) : Dots(s, a, b, n)}

\* the six fillPatterns
FillEnding(s) ==
    \/ \E a \in 1..Len(s) :
          /\ s[a] = Then
          /\ \E b \in Reach(s, a, 15) :
                s[b] \in IsWord /\ At(s, b + 1) \in Colon /\ TailOnly(s, b + 2)
    \/ \E a \in 1..Len(s) :
          /\ s[a] = If
          /\ \E c \in Reach(s, a, 30) :
                /\ s[c] \in Comma
                /\ \E d \in Reach(s, c, 15) :
                      /\ s[d] = Then
                      /\ \E e \in Reach(s, d, 15) :
                            s[e] \in Colon /\ TailOnly(s, e + 1)
    \/ \E b \in 1..Len(s) : s[b] = "=" /\ TailOnly(s, b + 1)
    \/ \E b \in 1..Len(s) :
          StartsWithAt(s, b, ValueIs) /\ TailOnly(s, b + Len(ValueIs))
    \/ \E a \in 1..Len(s) :
          /\ s[a] = Find
          /\ \E e \in Reach(s, a, 15) : s[e] \in Colon /\ TailOnly(s, e + 1)
    \/ \E a \in 1..Len(s) :
          /\ StartsWithAt(s, a, Compute)
          /\ \E e \in Reach(s, a + 1, 15) : s[e] \in Colon /\ TailOnly(s, e + 1)

\* /_{3,}|\$_{3,}\$|\$\\_\\_\\_\\_\$|\\\\_{3,}/.test(s)
HasBlank(s) ==
    \/ Test(s, PatternOf("blank", <<>>))
    \/ Test(s, PatternOf("blank", <<Dollar>>))
    \/ Test(s, PatternOf("literal", InlineEscapedBlank))
    \/ Test(s, PatternOf("slashBlank", <<"\\", "\\">>))

\* the segment as detectQuestionType tests it: image and table tags removed
TagFree(text) ==
    ReplaceEach(text, <<Remove(PatternOf("tag", ImageOpen)),
                        Remove(PatternOf("tag", TableOpen))>>)

\* a classifier that looks for a blank or an ending before it looks for
\* options
TypeOfBlankFirst(cleanText) ==
    IF HasBlank(cleanText) \/ FillEnding(cleanText) THEN "fill"
    ELSE IF HasOptions(cleanText)
    THEN IF \E w \in MultipleWords : Includes(cleanText, w)
         THEN "multiple-choice" ELSE "choice"
    ELSE "solution"

\* the tests on the text without its image and table tags
TypeOf(cleanText) ==
    IF HasOptions(cleanText)
    THEN IF \E w \in MultipleWords : Includes(cleanText, w)
         THEN "multiple-choice"
         ELSE "choice"
    ELSE IF HasBlank(cleanText) \/ FillEnding(cleanText) THEN "fill"
    ELSE "solution"

detectQuestionType(text) ==
    TypeOf(ReplaceEach(text, <<Remove(PatternOf("tag", ImageOpen)),
                               Remove(PatternOf("tag", TableOpen))>>))

-----------------------------------------------------------------------------
(* convertChoiceQuestion and calculateOptimalColumns.                      *)

RECURSIVE SumOfLengths(_)
SumOfLengths(list) ==
    IF list = <<>> THEN 0 ELSE Len(Head(list)) + SumOfLengths(Tail(list))

\* the option with its inline math and its commands taken out
OptionCleanText(option) ==
    Trim(ReplaceEach(option, <<Remove(Pattern("inlineMath")),
                               Remove(Pattern("command"))>>))

\* column counts that are not capped by the number of options
ColumnsOfLengthOnly(count, sum) ==
    IF count = 0 \/ count = 1 THEN 1
    ELSE IF sum > 30 * count THEN 2
    ELSE IF sum > 15 * count THEN 3
    ELSE IF sum > 8 * count THEN 4
    ELSE 6

\* the column count for count options whose clean lengths add up to sum:
\* avgLength > n  is  sum > n * count
Columns(count, sum) ==
    IF count = 0 \/ count = 1 THEN 1
    ELSE IF sum > 30 * count THEN (IF count <= 2 THEN count ELSE 2)
    ELSE IF sum > 15 * count THEN (IF count <= 3 THEN count ELSE 3)
    ELSE IF sum > 8 * count THEN (IF count <= 4 THEN count ELSE 4)
    ELSE (IF count <= 6 THEN count ELSE 6)

calculateOptimalColumns(options) ==
    Columns(Len(options),
            SumOfLengths([k \in 1..Len(options) |-> OptionCleanText(options[k])]))

\* \n[A-D][．\.\)、]  at k
OptionStartAt(s, k) ==
    /\ At(s, k) = "\n"
    /\ At(s, k + 1) \in OptionLetter
    /\ At(s, k + 2) \in OptionDelimiter

\* content.match(/\n[A-D][．\.\)、]\s*/).index, as a position; 0 if no match
FirstOption(s) == Least({k \in 1..Len(s) : OptionStartAt(s, k)})

\* (?=\n[A-D][．\.\)、]|\n\n|$)  seen after position h
OptionLookahead(s, h) ==
    \/ h = Len(s)
    \/ OptionStartAt(s, h + 1)
    \/ At(s, h + 1) = "\n" /\ At(s, h + 2) = "\n"

\* the positions group 2 can start at:  \s*  gives back whitespace until
\* group 2 starts on a line whose end the lookahead accepts
OptionStarts(s, k) ==
    {g \in (k + 2)..(RunEnd(s, k + 2, WhiteSpace) + 1) :
        /\ g <= Len(s)
        /\ s[g] # "\n"
        /\ OptionLookahead(s, RunEndNot(s, g, {"\n"}))}

\* /([A-D])[．\.\)、]\s*([^\n]+?)(?=\n[A-D][．\.\)、]|\n\n|$)/gs  matched at k:
\* group 2 starts as late as it can and runs to the end of its line
OptionAt(s, k) ==
    IF /\ At(s, k) \in OptionLetter
       /\ At(s, k + 1) \in OptionDelimiter
       /\ OptionStarts(s, k) # {}
    THEN [ok |-> TRUE, from |-> Greatest(OptionStarts(s, k)),
          to |-> RunEndNot(s, Greatest(OptionStarts(s, k)), {"\n"})]
    ELSE [ok |-> FALSE, from |-> 0, to |-> 0]

NextOption(s, k) == Least({j \in k..Len(s) : OptionAt(s, j).ok})

\* if (optionText) options.push(optionText)
OptionOf(optionText) == IF optionText = <<>> THEN <<>> ELSE <<optionText>>

\* the exec loop over optionPattern: the trimmed, non-empty option texts
RECURSIVE Options(_, _)
OptionsWith(s, m) ==
    OptionOf(Trim(SubSeq(s, m.from, m.to))) \o Options(s, m.to + 1)

OptionsAt(s, q) == IF q = 0 THEN <<>> ELSE OptionsWith(s, OptionAt(s, q))

Options(s, k) == OptionsAt(s, NextOption(s, k))

Dotfill ==
    <<"\\", "d", "o", "t", "f", "i", "l", "l", "U+FF08",
      "\\", "q", "q", "u", "a", "d", " ", "\\", "q", "q", "u", "a", "d", "U+FF09">>
BeginTasks == <<"\\", "b", "e", "g", "i", "n", "{", "t", "a", "s", "k", "s", "}", "(">>
EndTasks == <<"\\", "e", "n", "d", "{", "t", "a", "s", "k", "s", "}">>
TaskPrefix == <<"\\", "t", "a", "s", "k", " ">>

RECURSIVE TaskLines(_)
TaskLines(options) ==
    IF options = <<>> THEN <<>>
    ELSE TaskPrefix \o Head(options) \o <<"\n">> \o TaskLines(Tail(options))

\* the stem without score information, its empty parentheses filled
ChoiceStem(stem) ==
    ReplaceEach(removeScoreInfo(stem),
        <<Replace(PatternOf("emptyParen", <<"U+FF08", "U+FF09">>), Dotfill),
          Replace(PatternOf("emptyParen", <<"(", ")">>), Dotfill)>>)

\* stem, blank line, the tasks environment with one task per option
ChoiceLatex(stem, options) ==
    stem \o <<"\n", "\n">>
         \o BeginTasks \o ToDecimal(calculateOptimalColumns(options))
         \o <<")", "\n">> \o TaskLines(options) \o EndTasks

\* the conversion when the first option starts at firstOptionIndex
ChoiceAt(content, firstOptionIndex) ==
    IF firstOptionIndex = 0 THEN content
    ELSE ChoiceLatex(
             ChoiceStem(Trim(SubSeq(content, 1, firstOptionIndex - 1))),
             Options(SubSeq(content, firstOptionIndex, Len(content)), 1))

convertChoiceQuestion(content) == ChoiceAt(content, FirstOption(content))

-----------------------------------------------------------------------------
(* convertFillQuestion.                                                    *)

AppendedBlank == <<" ">> \o Underlines \o <<" ", "U+FF0E">>

\* /[:：=]\s*[．。]?\s*$/.test(s)
EndsLikeFill(s) ==
    \E b \in 1..Len(s) : s[b] \in (Colon \cup {"="}) /\ TailOnly(s, b + 1)

\* s.replace(/[．。]?\s*$/, ' \\underlines ．'): the leftmost match starts at
\* the first position that only an optional stop and whitespace follow
AppendBlank(s) ==
    SubSeq(s, 1, Least({q \in 1..(Len(s) + 1) :
                           \A j \in q..Len(s) :
                               s[j] \in WhiteSpace \/ (j = q /\ s[j] \in Stop)}) - 1)
        \o AppendedBlank

\* the five replacements of blanks by \underlines
FillBlanks(s) ==
    ReplaceEach(s,
        <<Replace(PatternOf("blank", <<Dollar, Dollar>>), Underlines),
          Replace(PatternOf("literal", BlockEscapedBlank), Underlines),
          Replace(PatternOf("blank", <<Dollar>>), Underlines),
          Replace(PatternOf("literal", InlineEscapedBlank), Underlines),
          Replace(Pattern("plainBlank"), Underlines)>>)

\* a blank is appended when there is none and the text ends like a fill question
EnsureBlank(s) ==
    IF ~Includes(s, Underlines) /\ EndsLikeFill(s) THEN AppendBlank(s) ELSE s

convertFillQuestion(content) ==
    EnsureBlank(FillBlanks(removeScoreInfo(Trim(content))))

-----------------------------------------------------------------------------
(* convertSolutionQuestion and convertMultipleSolutionQuestions.           *)

\* the character classes [阶段练习|期中|...], [高三|高二|...] and [上海|北京|...]
ExamChars ==
    {"U+4E2D", "U+4E60", "U+5377", "U+62DF", "U+6708", "U+671F", "U+672B",
     "U+6A21", "U+6BB5", "U+6D4B", "U+7814", "U+7EC3", "U+8003", "U+8054",
     "U+8BD5", "U+8C03", "U+9636", "|"}
GradeChars ==
    {"U+4E00", "U+4E09", "U+4E2D", "U+4E8C", "U+521D", "U+5B66", "U+5C0F",
     "U+9AD8", "|"}
RegionChars ==
    {"U+4E0A", "U+4E1C", "U+4E91", "U+4EAC", "U+5185", "U+5317", "U+5357",
     "U+53E4", "U+5409", "U+56DB", "U+590F", "U+5929", "U+5B81", "U+5B89",
     "U+5C71", "U+5DDD", "U+5DDE", "U+5E7F", "U+5E86", "U+5EFA", "U+5FBD",
     "U+65B0", "U+6797", "U+6C5F", "U+6CB3", "U+6D25", "U+6D59", "U+6D77",
     "U+6E56", "U+7518", "U+7586", "U+798F", "U+8083", "U+82CF", "U+8499",
     "U+85CF", "U+897F", "U+8D35", "U+8FBD", "U+91CD", "U+9655", "U+9752",
     "U+9ED1", "U+9F99", "|"}

\* the first closing parenthesis after position k, 0 if none
FirstClose(s, k) == Least({j \in (k + 1)..Len(s) : s[j] \in CloseParen})

\* [（(（][^）)]*[）)]\s*  at k: the end of the match, 0 if none
SourceNoteEnd(s, k) ==
    IF At(s, k) \in OpenParen /\ FirstClose(s, k) > 0
    THEN RunEnd(s, FirstClose(s, k) + 1, WhiteSpace)
    ELSE 0

\* the text after position e, the whole text when e = 0
DropTo(s, e) == IF e > 0 THEN SubSeq(s, e + 1, Len(s)) ELSE s

\* [（(（][^）)]*[）)]\s*  after a number prefix that ends at g
SourceNoteAfter(s, g) == IF g > 0 THEN SourceNoteEnd(s, g + 1) ELSE 0

\* s.replace(/^\d+[．\.\、]\s*[（(（][^）)]*[）)]\s*/g, '')
DropNumberedSource(s) == DropTo(s, SourceNoteAfter(s, NumberPrefixEnd(s, 1)))

\* s.replace(/^[（(（][^）)]*[cls][^）)]*[）)]\s*/g, '')
DropSource(s, cls) ==
    IF /\ SourceNoteEnd(s, 1) > 0
       /\ \E j \in 2..(FirstClose(s, 1) - 1) : s[j] \in cls
    THEN SubSeq(s, SourceNoteEnd(s, 1) + 1, Len(s))
    ELSE s

\* 已知, 设, 若, 求, 证明, 求证
StemWords == {<<"U+5DF2", "U+77E5">>, <<"U+8BBE">>, <<"U+82E5">>, <<"U+6C42">>,
              <<"U+8BC1", "U+660E">>, <<"U+6C42", "U+8BC1">>}

\* sub-questions that always go into one problem block
AlwaysBlock(content, questions) ==
    IF questions = <<>> THEN content
    ELSE BeginProblem \o Join(questions, <<"\n">>) \o EndProblem

\* independent questions two lines apart, or one problem block
QuestionsOrBlock(content, questions) ==
    IF questions = <<>> THEN content
    ELSE IF (\E w \in StemWords : Includes(content, w)) /\ Len(questions) > 1
    THEN Join(questions, <<"\n", "\n">>)
    ELSE BeginProblem \o Join(questions, <<"\n">>) \o EndProblem

convertMultipleSolutionQuestions(content) ==
    QuestionsOrBlock(content, SubQuestionItems(content, 1))

\* the four removals of a leading source note
DropSources(s) ==
    DropSource(DropSource(DropSource(DropNumberedSource(s), ExamChars),
                          GradeChars),
               RegionChars)

\* the branch on the number of sub-question markers
SolutionOf(cleaned) ==
    IF CountFrom(cleaned, 1, Pattern("subMarker")) > 1
    THEN convertMultipleSolutionQuestions(cleaned)
    ELSE BlockOrElse(separateStemAndSubQuestions(cleaned), cleaned)

convertSolutionQuestion(content) ==
    SolutionOf(DropSources(removeScoreInfo(Trim(content))))

-----------------------------------------------------------------------------
(* convertQuestion.                                                        *)

\* content.replace(/^\\item\s*/, '')
StripItem(content) ==
    IF StartsWithAt(content, 1, ItemMarker)
    THEN SubSeq(content, RunEnd(content, Len(ItemMarker) + 1, WhiteSpace) + 1,
                Len(content))
    ELSE content

\* the dispatch on the detected type
ConvertAs(type, cleanContent) ==
    IF type \in {"choice", "multiple-choice"}
    THEN convertChoiceQuestion(cleanContent)
    ELSE IF type = "fill" THEN convertFillQuestion(cleanContent)
    ELSE convertSolutionQuestion(cleanContent)

ConvertClean(cleanContent) ==
    ConvertAs(detectQuestionType(cleanContent), cleanContent)

\* a result that is returned as the converter made it
WithoutItem(body) == body

\* the result starts with \item
EnsureItem(body) ==
    IF StartsWithAt(body, 1, ItemMarker) THEN body ELSE ItemPrefix \o body

convertQuestion(content) == EnsureItem(ConvertClean(StripItem(content)))

-----------------------------------------------------------------------------
(* The documents the conversion is run on.                                 *)

MaxPieces == 3

\* a numbered question with a body of eleven characters
PieceQuestion ==
    <<"\n", "1", "U+FF0E", "a", "b", "c", "d", "e", "f", "g", "h", "i", "j", "k">>
\* a bare question number, a marker where it starts a line or a section
PieceNumber == <<"2", ".", " ">>
\* a numbered question that does not start a line: a marker only at the
\* start of a document or right behind a section marker
PieceRunOn ==
    <<"4", "U+3001", "o", "p", "q", "r", "s", "t", "u", "v", "w", "x", "y">>
\* inline math, inline math over a line that starts like a question, block math
PieceInline == <<"$", "x", "$">>
PieceInlineNumber == <<"$", "\n", "3", "U+3001", "y", "$">>
PieceBlock == <<"$", "$", "z", "$", "$">>
\* inline math that holds a parenthesised number
PieceInlineParen == <<"$", "f", "(", "1", ")", "$">>
\* a sub-question marker with one character of text
PieceSub == <<"U+FF08", "2", "U+FF09", "w">>
\* a section marker
PieceSection == <<"\n", "U+4E00", "U+FF0E">>
\* plain text of eleven characters
PieceText == <<"l", "m", "n", "o", "p", "q", "r", "s", "t", "u", "v">>

Pieces == {PieceQuestion, PieceNumber, PieceInline, PieceInlineNumber,
           PieceBlock, PieceInlineParen, PieceSub, PieceSection, PieceText,
           PieceRunOn}

RECURSIVE Concat(_)
Concat(list) == IF list = <<>> THEN <<>> ELSE Head(list) \o Concat(Tail(list))

Documents ==
    {Concat(f) : f \in UNION {[1..n -> Pieces] : n \in 0..MaxPieces}}

-----------------------------------------------------------------------------
(* convertToLatexFormat, step by step.                                     *)

\* no call of convertQuestion on its own
NoQuestion ==
    /\ question = <<>>
    /\ questionClean = <<>>
    /\ questionType = ""
    /\ questionConverted = <<>>

\* no processing queue
NoQueue ==
    /\ queue = <<>>
    /\ processing = 0
    /\ taskState = <<>>
    /\ outcome = <<>>
    /\ promise = <<>>
    /\ startOrder = <<>>
    /\ waited = FALSE

\* a job that scanTasks does not hold
NoScanTask ==
    [status |-> "absent", progress |-> 0, result |-> <<>>, hasResult |-> FALSE,
     error |-> <<>>, hasError |-> FALSE]

\* a batch that batchTasks does not hold
NoBatchTask ==
    [status |-> "absent", overallProgress |-> 0, totalFiles |-> 0,
     completedFiles |-> 0, failedFiles |-> 0]

\* a Mathpix service that was asked nothing; as an answer: a request that
\* succeeds with a job id, a job that shows no status and no content
NotAsked ==
    [config |-> TRUE, post |-> "data", failure |-> <<>>, error |-> <<>>,
     pdfId |-> TRUE, polls |-> <<>>, pollError |-> <<>>, mmd |-> "none",
     txt |-> "none", text |-> <<>>]

\* no request of the result so far
NoResponse == [code |-> 0, success |-> FALSE, result |-> <<>>]

\* no scan job, no batch
NoService ==
    /\ scanTask = NoScanTask
    /\ fileType = ""
    /\ mathpix = NotAsked
    /\ response = NoResponse
    /\ batchTask = NoBatchTask
    /\ files = <<>>

\* nothing of the specifications that follow these
NoRest == reprocessed = <<>> /\ NoQueue /\ NoService

\* no calls side by side, no call of calculateOptimalColumns on its own
NoCalls ==
    /\ calls = <<>>
    /\ lastIndex = 0
    /\ throwing = {}
    /\ optionList = <<>>
    /\ columns = 0

Init ==
    /\ pc = "start"
    /\ markdown \in Documents
    /\ converted = <<>>
    /\ segInfo = <<>>
    /\ questionSegments = <<>>
    /\ i = 0
    /\ convertedQuestions = <<>>
    /\ thrown = {}
    /\ result = <<>>
    /\ earlierSegments = <<>>
    /\ NoQuestion
    /\ NoCalls
    /\ NoRest

\* converted = this.preprocessContent(converted)
Preprocess ==
    /\ pc = "start"
    /\ converted' = preprocessContent(markdown)
    /\ pc' = "preprocessed"
    /\ UNCHANGED <<markdown, segInfo, questionSegments, i, convertedQuestions,
                   thrown, result, earlierSegments>>
    /\ UNCHANGED besideConversion

\* const questionSegments = this.splitQuestions(converted)
SplitQuestions ==
    /\ pc = "preprocessed"
    /\ segInfo' = SplitRecords(converted)
    /\ questionSegments' = Segments(segInfo')
    /\ pc' = "loop"
    /\ UNCHANGED <<markdown, converted, i, convertedQuestions, thrown, result,
                   earlierSegments>>
    /\ UNCHANGED besideConversion

\* the first two steps of the earlier convertToLatexFormat
SegmentEarlier ==
    /\ pc = "start"
    /\ earlierSegments' = splitQuestionsEarlier(preprocessContentEarlier(markdown))
    /\ pc' = "earlier"
    /\ UNCHANGED <<markdown, converted, segInfo, questionSegments, i,
                   convertedQuestions, thrown, result>>
    /\ UNCHANGED besideConversion

\* if (convertedQuestion) convertedQuestions.push(convertedQuestion)
PushIfAny(list, convertedQuestion) ==
    IF convertedQuestion # <<>> THEN Append(list, convertedQuestion) ELSE list

\* one pass of the loop body in which convertQuestion returns
ConvertSegment ==
    /\ pc = "loop"
    /\ i < Len(questionSegments)
    /\ convertedQuestions' =
           PushIfAny(convertedQuestions, convertQuestion(questionSegments[i + 1]))
    /\ i' = i + 1
    /\ UNCHANGED <<pc, markdown, converted, segInfo, questionSegments, thrown,
                   result, earlierSegments>>
    /\ UNCHANGED besideConversion

\* a catch clause that pushes nothing
ConvertFailsDropsSegment ==
    /\ pc = "loop"
    /\ i < Len(questionSegments)
    /\ thrown' = thrown \cup {i}
    /\ i' = i + 1
    /\ UNCHANGED <<pc, markdown, converted, segInfo, questionSegments,
                   convertedQuestions, result, earlierSegments>>
    /\ UNCHANGED besideConversion

\* one pass of the loop body in which convertQuestion throws: the catch
\* clause keeps the segment
ConvertFails ==
    /\ pc = "loop"
    /\ i < Len(questionSegments)
    /\ convertedQuestions' = Append(convertedQuestions, questionSegments[i + 1])
    /\ thrown' = thrown \cup {i}
    /\ i' = i + 1
    /\ UNCHANGED <<pc, markdown, converted, segInfo, questionSegments, result,
                   earlierSegments>>
    /\ UNCHANGED besideConversion

\* a return that joins with a single newline
ReturnJoinedByNewline ==
    /\ pc = "loop"
    /\ i = Len(questionSegments)
    /\ result' = Join(convertedQuestions, <<"\n">>)
    /\ pc' = "done"
    /\ UNCHANGED <<markdown, converted, segInfo, questionSegments, i,
                   convertedQuestions, thrown, earlierSegments>>
    /\ UNCHANGED besideConversion

\* return convertedQuestions.join('\n\n')
Return ==
    /\ pc = "loop"
    /\ i = Len(questionSegments)
    /\ result' = Join(convertedQuestions, <<"\n", "\n">>)
    /\ pc' = "done"
    /\ UNCHANGED <<markdown, converted, segInfo, questionSegments, i,
                   convertedQuestions, thrown, earlierSegments>>
    /\ UNCHANGED besideConversion

Next ==
    \/ Preprocess
    \/ SplitQuestions
    \/ ConvertSegment
    \/ ConvertFails
    \/ Return
    \/ SegmentEarlier

Spec == Init /\ [][Next]_vars

-----------------------------------------------------------------------------
(* convertToLatexFormat on documents of one numbered question.             *)

MaxQuestionPieces == 4

\* a question number, text of eleven characters and of two, inline math, a
\* block math delimiter and a fraction command
QuestionPieces == {<<"1", "U+FF0E">>, PieceText, <<"a", "b">>, PieceInline,
                   <<Dollar, Dollar>>, Frac}

QuestionDocuments ==
    {Concat(f) : f \in UNION {[1..n -> QuestionPieces] : n \in 0..MaxQuestionPieces}}

InitEndToEnd ==
    /\ pc = "start"
    /\ markdown \in QuestionDocuments
    /\ converted = <<>>
    /\ segInfo = <<>>
    /\ questionSegments = <<>>
    /\ i = 0
    /\ convertedQuestions = <<>>
    /\ thrown = {}
    /\ result = <<>>
    /\ earlierSegments = <<>>
    /\ NoQuestion
    /\ NoCalls
    /\ NoRest

SpecEndToEnd == InitEndToEnd /\ [][Next]_vars

-----------------------------------------------------------------------------
(* preprocessContent on documents of fractions, exponents and braces.      *)

MaxFracPieces == 6

FracPieces == {Frac, DfracOpen, ExponentOpen, <<"}">>, <<"{">>}

FracDocuments ==
    {Concat(f) : f \in UNION {[1..n -> FracPieces] : n \in 0..MaxFracPieces}}

InitFrac ==
    /\ pc = "start"
    /\ markdown \in FracDocuments
    /\ converted = <<>>
    /\ segInfo = <<>>
    /\ questionSegments = <<>>
    /\ i = 0
    /\ convertedQuestions = <<>>
    /\ thrown = {}
    /\ result = <<>>
    /\ earlierSegments = <<>>
    /\ NoQuestion
    /\ NoCalls
    /\ NoRest

NextFrac == Preprocess

SpecFrac == InitFrac /\ [][NextFrac]_vars

-----------------------------------------------------------------------------
(* preprocessContent applied to its own result.                            *)

MaxTwicePieces == 5

\* a fraction, the opening of a \dfrac, an exponent that holds a fraction
\* and braces
TwicePieces == {Frac, DfracOpen, ExponentOpen \o Frac \o <<"}">>, <<"{">>, <<"}">>}

TwiceDocuments ==
    {Concat(f) : f \in UNION {[1..n -> TwicePieces] : n \in 0..MaxTwicePieces}}

InitTwice ==
    /\ pc = "start"
    /\ markdown \in TwiceDocuments
    /\ converted = <<>>
    /\ segInfo = <<>>
    /\ questionSegments = <<>>
    /\ i = 0
    /\ convertedQuestions = <<>>
    /\ thrown = {}
    /\ result = <<>>
    /\ earlierSegments = <<>>
    /\ NoQuestion
    /\ NoCalls
    /\ reprocessed = <<>>
    /\ NoQueue
    /\ NoService

\* preprocessContent on the text that preprocessContent returned
PreprocessAgain ==
    /\ pc = "preprocessed"
    /\ reprocessed' = preprocessContent(converted)
    /\ pc' = "again"
    /\ UNCHANGED <<markdown, converted, segInfo, questionSegments, i,
                   convertedQuestions, thrown, result, earlierSegments>>
    /\ UNCHANGED <<questionVars, callVars, columnVars, queueVars, serviceVars>>

NextTwice ==
    \/ Preprocess
    \/ PreprocessAgain

SpecTwice == InitTwice /\ [][NextTwice]_vars

-----------------------------------------------------------------------------
(* convertQuestion, step by step, on one segment.                          *)

\* documents with text that reads like a placeholder: the token of the
\* first inline span, a token of an exponent, an inline span, a numbered
\* question and plain text
MaxTokenPieces == 3

InlineToken == Token(LatexInlinePrefix, 0)

ExponentToken == Token(ProtectedExponentPrefix, 7)

TokenPieces == {InlineToken, ExponentToken, PieceInline, PieceQuestion, PieceText}

InitTokens ==
    /\ pc = "start"
    /\ markdown \in {Concat(f) : f \in UNION {[1..n -> TokenPieces] :
                                                 n \in 0..MaxTokenPieces}}
    /\ converted = <<>>
    /\ segInfo = <<>>
    /\ questionSegments = <<>>
    /\ i = 0
    /\ convertedQuestions = <<>>
    /\ thrown = {}
    /\ result = <<>>
    /\ earlierSegments = <<>>
    /\ NoQuestion
    /\ NoCalls
    /\ NoRest

SpecTokens == InitTokens /\ [][Next]_vars

\* no call of convertToLatexFormat
NoConversion ==
    /\ markdown = <<>>
    /\ converted = <<>>
    /\ segInfo = <<>>
    /\ questionSegments = <<>>
    /\ i = 0
    /\ convertedQuestions = <<>>
    /\ thrown = {}
    /\ result = <<>>
    /\ earlierSegments = <<>>

\* let cleanContent = content.replace(/^\\item\s*/, '')
\* const type = this.detectQuestionType(cleanContent)
DetectType ==
    /\ pc = "question"
    /\ questionClean' = StripItem(question)
    /\ questionType' = detectQuestionType(questionClean')
    /\ pc' = "typed"
    /\ UNCHANGED <<markdown, converted, segInfo, questionSegments, i,
                   convertedQuestions, thrown, result, earlierSegments>>
    /\ UNCHANGED <<question, questionConverted, callVars, columnVars>>
    /\ UNCHANGED restVars

\* the dispatch on type, the \item prefix and the return
ConvertByType ==
    /\ pc = "typed"
    /\ questionConverted' = EnsureItem(ConvertAs(questionType, questionClean))
    /\ pc' = "returned"
    /\ UNCHANGED <<markdown, converted, segInfo, questionSegments, i,
                   convertedQuestions, thrown, result, earlierSegments>>
    /\ UNCHANGED <<question, questionClean, questionType, callVars, columnVars>>
    /\ UNCHANGED restVars

NextQuestion ==
    \/ DetectType
    \/ ConvertByType

\* the segments whose type is in question: option letters and delimiters,
\* text, line breaks, a multiple-choice word, a blank, an ending that
\* expects an answer and an image tag
MaxTypePieces == 4

ImageTag == ImageOpen \o <<"1", "]">>

TypePieces == {<<"A">>, <<".">>, <<"x">>, <<"\n">>, <<" ">>,
               <<"U+591A", "U+9009">>, <<"_", "_", "_">>, ValueIs, ImageTag}

TypeSegments ==
    {Concat(f) : f \in UNION {[1..n -> TypePieces] : n \in 0..MaxTypePieces}}

InitType ==
    /\ pc = "question"
    /\ question \in TypeSegments
    /\ questionClean = <<>>
    /\ questionType = ""
    /\ questionConverted = <<>>
    /\ NoConversion
    /\ NoCalls
    /\ NoRest

SpecType == InitType /\ [][NextQuestion]_vars

\* the segments of a fill question: blanks of three underscores, single
\* underscores, dollars, the escaped blank, text and an equals sign
MaxFillPieces == 4

FillPieces == {<<"_", "_", "_">>, <<"_">>, <<Dollar>>, EscapedBlank, <<"x">>,
               <<"=">>}

FillSegments ==
    {Concat(f) : f \in UNION {[1..n -> FillPieces] : n \in 0..MaxFillPieces}}

InitFill ==
    /\ pc = "question"
    /\ question \in FillSegments
    /\ questionClean = <<>>
    /\ questionType = ""
    /\ questionConverted = <<>>
    /\ NoConversion
    /\ NoCalls
    /\ NoRest

SpecFill == InitFill /\ [][NextQuestion]_vars

\* the segments of a solution question: sub-question markers, text, a stem
\* word and whitespace
MaxSolutionPieces == 5

SolutionPieces == {<<"U+FF08", "1", "U+FF09">>, <<"(", "2", ")">>, <<"a">>,
                   <<"U+82E5">>, <<" ">>, <<"\n">>}

SolutionSegments ==
    {Concat(f) : f \in UNION {[1..n -> SolutionPieces] : n \in 0..MaxSolutionPieces}}

InitSolution ==
    /\ pc = "question"
    /\ question \in SolutionSegments
    /\ questionClean = <<>>
    /\ questionType = ""
    /\ questionConverted = <<>>
    /\ NoConversion
    /\ NoCalls
    /\ NoRest

SpecSolution == InitSolution /\ [][NextQuestion]_vars

-----------------------------------------------------------------------------
(* calculateOptimalColumns on lists of options.                            *)

MaxOptions == 7

\* text of n characters
TextOf(n) == [k \in 1..n |-> "a"]

\* options of 5, 8, 9, 15, 16, 30, 31 and 40 visible characters, some of
\* them with inline math, a command or blanks around them
OptionKinds ==
    <<TextOf(5),
      TextOf(8) \o <<"$", "x", "$">>,
      <<" ">> \o TextOf(9) \o <<" ">>,
      TextOf(15),
      <<"\\", "s", "q", "r", "t", "{", "2", "}">> \o TextOf(16),
      TextOf(30),
      TextOf(31),
      TextOf(40)>>

\* the lists of n options of the first kinds kinds, in the order of the
\* kinds (the sum of the lengths does not depend on the order)
RECURSIVE OptionLists(_, _)
OptionLists(n, kinds) ==
    IF n = 0 THEN {<<>>}
    ELSE UNION {{Append(list, OptionKinds[k]) : list \in OptionLists(n - 1, k)} :
                k \in 1..kinds}

InitColumns ==
    /\ pc = "options"
    /\ optionList \in UNION {OptionLists(n, Len(OptionKinds)) : n \in 0..MaxOptions}
    /\ columns = 0
    /\ calls = <<>>
    /\ lastIndex = 0
    /\ throwing = {}
    /\ NoConversion
    /\ NoQuestion
    /\ NoRest

\* one call of calculateOptimalColumns
CalculateColumns ==
    /\ pc = "options"
    /\ columns' = calculateOptimalColumns(optionList)
    /\ pc' = "columns"
    /\ UNCHANGED <<markdown, converted, segInfo, questionSegments, i,
                   convertedQuestions, thrown, result, earlierSegments>>
    /\ UNCHANGED <<optionList, questionVars, calls, lastIndex, throwing>>
    /\ UNCHANGED restVars

NextColumns == CalculateColumns

SpecColumns == InitColumns /\ [][NextColumns]_vars

-----------------------------------------------------------------------------
(* Several calls of convertToLatexFormat, in any order.  The method is     *)
(* synchronous: a call runs to its return before the next one starts.  The *)
(* only object a call could leave behind is the regular expression that   *)
(* detectQuestionType tests with under the g flag: test() starts at the    *)
(* object's lastIndex and stores the end of the match there.               *)

MaxCalls == 3

CallIds == 1..MaxCalls

\* a question, a question with an option line, both
PieceOption == <<"\n", "A", ".", " ", "x">>

CallDocuments == {PieceQuestion, PieceQuestion \o PieceOption,
                  PieceQuestion \o PieceOption \o PieceQuestion}

\* the segments splitQuestions makes of them
CallSegments ==
    {ItemPrefix \o SubSeq(PieceQuestion, 4, Len(PieceQuestion)),
     ItemPrefix \o SubSeq(PieceQuestion, 4, Len(PieceQuestion)) \o PieceOption}

\* where [^\n]+ starts in a match of /[A-D][．\.\)、]\s*[^\n]+/ at k: \s* is
\* greedy; 0 when there is no match at k
OptionsTextStart(s, k) ==
    IF s[k] \in OptionLetter /\ At(s, k + 1) \in OptionDelimiter
    THEN Greatest({j \in (k + 2)..(RunEnd(s, k + 2, WhiteSpace) + 1) :
                       j <= Len(s) /\ s[j] # "\n"})
    ELSE 0

\* the first match at or after lastIndex from, 0 when there is none
OptionsFrom(s, from) ==
    Least({k \in (from + 1)..Len(s) : OptionsTextStart(s, k) # 0})

\* the lastIndex test() leaves: the end of the match at k, 0 after a failure
OptionsLastIndex(s, k) ==
    IF k = 0 THEN 0 ELSE RunEndNot(s, OptionsTextStart(s, k), {"\n"})

\* a regular expression kept from one evaluation to the next
RegExpKept(from) == from

\* a regular expression literal is a new object, lastIndex 0, every time it
\* is evaluated
RegExpLiteral(from) == 0

\* detectQuestionType's tests, hasOptions made from position from
TypeFrom(cleanText, from) ==
    IF OptionsFrom(cleanText, from) # 0
    THEN IF \E w \in MultipleWords : Includes(cleanText, w)
         THEN "multiple-choice" ELSE "choice"
    ELSE IF HasBlank(cleanText) \/ FillEnding(cleanText) THEN "fill"
    ELSE "solution"

\* convertQuestion with the regular expression's lastIndex at from
ConvertFrom(content, from) ==
    EnsureItem(ConvertAs(TypeFrom(TagFree(StripItem(content)), from),
                         StripItem(content)))

NewCall(document) ==
    [pc |-> "start", markdown |-> document, converted |-> <<>>,
     questionSegments |-> <<>>,
     i |-> 0, convertedQuestions |-> <<>>, result |-> <<>>]

InitCalls ==
    /\ calls \in [CallIds -> {NewCall(d) : d \in CallDocuments}]
    /\ lastIndex = 0
    /\ throwing \in SUBSET CallSegments
    /\ pc = "calls"
    /\ NoConversion
    /\ NoQuestion
    /\ optionList = <<>>
    /\ columns = 0
    /\ NoRest

\* the segment call c is about to convert
SegmentOf(c) == calls[c].questionSegments[calls[c].i + 1]

\* converted = this.preprocessContent(converted), once no other call runs
PreprocessInCall(c) ==
    /\ calls[c].pc = "start"
    /\ \A d \in CallIds : calls[d].pc \in {"start", "done"}
    /\ calls' = [calls EXCEPT
           ![c].converted = preprocessContent(calls[c].markdown),
           ![c].pc = "preprocessed"]
    /\ UNCHANGED <<lastIndex, throwing, conversionVars, questionVars, columnVars>>
    /\ UNCHANGED restVars

\* const questionSegments = this.splitQuestions(converted)
SplitInCall(c) ==
    /\ calls[c].pc = "preprocessed"
    /\ calls' = [calls EXCEPT
           ![c].questionSegments = splitQuestions(calls[c].converted),
           ![c].pc = "loop"]
    /\ UNCHANGED <<lastIndex, throwing, conversionVars, questionVars, columnVars>>
    /\ UNCHANGED restVars

\* one pass of the loop body in which convertQuestion returns
ConvertInCall(c) ==
    /\ calls[c].pc = "loop"
    /\ calls[c].i < Len(calls[c].questionSegments)
    /\ SegmentOf(c) \notin throwing
    /\ calls' = [calls EXCEPT
           ![c].convertedQuestions =
               PushIfAny(@, ConvertFrom(SegmentOf(c), RegExpLiteral(lastIndex))),
           ![c].i = @ + 1]
    /\ lastIndex' =
           OptionsLastIndex(TagFree(StripItem(SegmentOf(c))),
                            OptionsFrom(TagFree(StripItem(SegmentOf(c))),
                                        RegExpLiteral(lastIndex)))
    /\ UNCHANGED <<throwing, conversionVars, questionVars, columnVars>>
    /\ UNCHANGED restVars

\* one pass of the loop body in which convertQuestion throws
CatchInCall(c) ==
    /\ calls[c].pc = "loop"
    /\ calls[c].i < Len(calls[c].questionSegments)
    /\ SegmentOf(c) \in throwing
    /\ calls' = [calls EXCEPT
           ![c].convertedQuestions = Append(@, SegmentOf(c)),
           ![c].i = @ + 1]
    /\ UNCHANGED <<lastIndex, throwing, conversionVars, questionVars, columnVars>>
    /\ UNCHANGED restVars

\* return convertedQuestions.join('\n\n')
ReturnFromCall(c) ==
    /\ calls[c].pc = "loop"
    /\ calls[c].i = Len(calls[c].questionSegments)
    /\ calls' = [calls EXCEPT
           ![c].result = Join(calls[c].convertedQuestions, <<"\n", "\n">>),
           ![c].pc = "done"]
    /\ UNCHANGED <<lastIndex, throwing, conversionVars, questionVars, columnVars>>
    /\ UNCHANGED restVars

NextCalls ==
    \E c \in CallIds :
        \/ PreprocessInCall(c)
        \/ SplitInCall(c)
        \/ ConvertInCall(c)
        \/ CatchInCall(c)
        \/ ReturnFromCall(c)

SpecCalls == InitCalls /\ [][NextCalls]_vars

-----------------------------------------------------------------------------
(* ProcessingQueue.  Tasks are numbered in the order of the add calls.  A  *)
(* step is what runs without interruption on the event loop: a call of add *)
(* up to its return, or one continuation behind an await.                  *)

maxConcurrent == 3

MaxTasks == 5

TaskIds == 1..MaxTasks

\* a process() that lets one task more than maxConcurrent run
OneTooMany(q, p) == p <= maxConcurrent /\ q # <<>>

\* process() goes on: not (processing >= maxConcurrent || queue.length === 0)
CanStart(q, p) == ~(p >= maxConcurrent \/ Len(q) = 0)

\* a process() that takes the task added last
TakeLast(q, p) == IF CanStart(q, p) THEN q[Len(q)] ELSE 0

\* the task that process() shifts from queue q and starts, 0 if it returns
Shifted(q, p) == IF CanStart(q, p) THEN Head(q) ELSE 0

\* queue, processing, the task states and the order of starts after the
\* synchronous part of process(): processing++, queue.shift(), task() up to
\* its first await
QueueAfter(q, p) ==
    IF Shifted(q, p) = 0 THEN q
    ELSE SelectSeq(q, LAMBDA t : t # Shifted(q, p))

ProcessingAfter(q, p) == IF Shifted(q, p) = 0 THEN p ELSE p + 1

StatesAfter(q, p, states) ==
    IF Shifted(q, p) = 0 THEN states
    ELSE [states EXCEPT ![Shifted(q, p)] = "running"]

StartsAfter(q, p, starts) ==
    IF Shifted(q, p) = 0 THEN starts ELSE Append(starts, Shifted(q, p))

InitQueue ==
    /\ pc = "queue"
    /\ queue = <<>>
    /\ processing = 0
    /\ taskState = [t \in TaskIds |-> "new"]
    /\ outcome = [t \in TaskIds |-> "none"]
    /\ promise = [t \in TaskIds |-> "none"]
    /\ startOrder = <<>>
    /\ waited = FALSE
    /\ reprocessed = <<>>
    /\ NoService
    /\ NoConversion
    /\ NoQuestion
    /\ NoCalls

\* add(task) for the next task t: the promise is made, the wrapper is
\* pushed, process() is called
Add(t) ==
    /\ taskState[t] = "new"
    /\ \A u \in 1..(t - 1) : taskState[u] # "new"
    /\ promise' = [promise EXCEPT ![t] = "pending"]
    /\ queue' = QueueAfter(Append(queue, t), processing)
    /\ processing' = ProcessingAfter(Append(queue, t), processing)
    /\ taskState' = StatesAfter(Append(queue, t), processing,
                                [taskState EXCEPT ![t] = "queued"])
    /\ startOrder' = StartsAfter(Append(queue, t), processing, startOrder)
    /\ waited' = (waited \/ Shifted(Append(queue, t), processing) # t)
    /\ UNCHANGED <<outcome, reprocessed, conversionVars, questionVars,
                   callVars, columnVars, serviceVars>>

\* the promise of the running task t is fulfilled or rejected
TaskSettles(t) ==
    /\ taskState[t] = "running"
    /\ \E o \in {"fulfilled", "rejected"} : outcome' = [outcome EXCEPT ![t] = o]
    /\ taskState' = [taskState EXCEPT ![t] = "settled"]
    /\ UNCHANGED <<queue, processing, promise, startOrder, waited, reprocessed,
                   conversionVars, questionVars, callVars, columnVars, serviceVars>>

\* the wrapper behind  await task(): resolve(result) or reject(error)
WrapperResumes(t) ==
    /\ taskState[t] = "settled"
    /\ promise' = [promise EXCEPT ![t] = outcome[t]]
    /\ taskState' = [taskState EXCEPT ![t] = "wrapped"]
    /\ UNCHANGED <<queue, processing, outcome, startOrder, waited, reprocessed,
                   conversionVars, questionVars, callVars, columnVars, serviceVars>>

\* process() behind  await task(): finally processing--, this.process()
ProcessResumes(t) ==
    /\ taskState[t] = "wrapped"
    /\ queue' = QueueAfter(queue, processing - 1)
    /\ processing' = ProcessingAfter(queue, processing - 1)
    /\ taskState' = StatesAfter(queue, processing - 1,
                                [taskState EXCEPT ![t] = "finished"])
    /\ startOrder' = StartsAfter(queue, processing - 1, startOrder)
    /\ UNCHANGED <<outcome, promise, waited, reprocessed, conversionVars,
                   questionVars, callVars, columnVars, serviceVars>>

NextQueue ==
    \E t \in TaskIds :
        \/ Add(t)
        \/ TaskSettles(t)
        \/ WrapperResumes(t)
        \/ ProcessResumes(t)

SpecQueue == InitQueue /\ [][NextQueue]_vars

\* every running task settles sooner or later, and the event loop runs every
\* continuation that is due
SpecQueueFair ==
    /\ SpecQueue
    /\ \A t \in TaskIds :
           /\ WF_vars(TaskSettles(t))
           /\ WF_vars(WrapperResumes(t))
           /\ WF_vars(ProcessResumes(t))

-----------------------------------------------------------------------------
(* MathpixService: recognition.  The Mathpix service is the environment: a *)
(* record tells how it answers the requests of one job.  A call either     *)
(* returns a text or throws an error; an error's message is a sequence of  *)
(* parts, the empty sequence being the empty message.                      *)

\* a || b on strings
OrElse(a, b) == IF a # <<>> THEN a ELSE b

Returned(text) ==
    [threw |-> FALSE, value |-> text, message |-> <<>>, dataError |-> <<>>,
     dataMessage |-> <<>>]

\* throw new Error(message)
Threw(message) ==
    [threw |-> TRUE, value |-> <<>>, message |-> message, dataError |-> <<>>,
     dataMessage |-> <<>>]

\* a request that axios rejects: failure.message, and what the response
\* held, failure.dataError and failure.dataMessage
Rejected(failure) ==
    [threw |-> TRUE, value |-> <<>>, message |-> failure.message,
     dataError |-> failure.dataError, dataMessage |-> failure.dataMessage]

ConfigMissing == <<"Mathpix API configuration missing">>
NoDataPDF == <<"Mathpix PDF API returned no data">>
NoDataOCR == <<"Mathpix OCR API returned no data">>
ErrorPDF == <<"Mathpix PDF API error: ">>
ErrorOCR == <<"Mathpix OCR API error: ">>
NoPdfId == <<"Mathpix PDF API returned no pdf_id">>
NoContent == <<"cannot get the MMD content of the PDF">>
ProcessingFailed == <<"Mathpix processing failed">>
TimedOut == <<"Mathpix processing timed out">>
RecognitionFailed == <<"Mathpix recognition failed: ">>
UnknownError == <<"unknown error">>
ScanFailed == <<"scan failed">>
FileFailed == <<"processing failed">>

\* the body of one of the two content responses: a response that fails, a
\* non-empty string, an object with the field, anything else
ContentOf(kind, text) ==
    IF kind = "string" /\ Len(text) > 0 THEN text
    ELSE IF kind = "object" THEN text
    ELSE <<>>

\* getPDFMMDContent: the .mmd response, else the .txt response, else null
\* (the empty sequence)
getPDFMMDContent(remote) ==
    OrElse(ContentOf(remote.mmd, remote.text), ContentOf(remote.txt, remote.text))

maxAttempts == 1

\* the status the remote job shows at the poll of an attempt
StatusAt(remote, attempt) ==
    IF attempt < Len(remote.polls) THEN remote.polls[attempt + 1]
    ELSE "processing"

\* what the try block of one attempt does: returns, throws, or goes on to
\* the wait at its end ("waits")
Attempt(remote, status) ==
    IF status = "rejects" THEN Rejected(remote.failure)
    ELSE IF status = "completed"
    THEN IF getPDFMMDContent(remote) # <<>>
         THEN Returned(getPDFMMDContent(remote))
         ELSE Threw(NoContent)
    ELSE IF status \in {"error", "failed"}
    THEN Threw(OrElse(remote.pollError, ProcessingFailed))
    ELSE [Returned(<<>>) EXCEPT !.message = <<"waits">>]

Waits(attempted) == ~attempted.threw /\ attempted.message = <<"waits">>

\* pollMathpixResult from an attempt on: the catch clause throws what the
\* last attempt threw and lets an earlier attempt be followed by the next
RECURSIVE PollFrom(_, _)
PollFrom(remote, attempt) ==
    IF ~(attempt < maxAttempts) THEN Threw(TimedOut)
    ELSE IF Waits(Attempt(remote, StatusAt(remote, attempt)))
    THEN PollFrom(remote, attempt + 1)
    ELSE IF ~Attempt(remote, StatusAt(remote, attempt)).threw
    THEN Attempt(remote, StatusAt(remote, attempt))
    ELSE IF attempt = maxAttempts - 1
    THEN Attempt(remote, StatusAt(remote, attempt))
    ELSE PollFrom(remote, attempt + 1)

pollMathpixResult(remote) == PollFrom(remote, 0)

\* uploadPDFToMathpix: the request, the checks of its response, the polling
uploadPDFToMathpix(remote) ==
    IF ~remote.config THEN Threw(ConfigMissing)
    ELSE IF remote.post = "rejects" THEN Rejected(remote.failure)
    ELSE IF remote.post = "nodata" THEN Threw(NoDataPDF)
    ELSE IF remote.error # <<>> THEN Threw(ErrorPDF \o remote.error)
    ELSE IF ~remote.pdfId THEN Threw(NoPdfId)
    ELSE pollMathpixResult(remote)

\* uploadImageToMathpix: return response.data.text || response.data.mmd || ''
uploadImageToMathpix(remote) ==
    IF ~remote.config THEN Threw(ConfigMissing)
    ELSE IF remote.post = "rejects" THEN Rejected(remote.failure)
    ELSE IF remote.post = "nodata" THEN Threw(NoDataOCR)
    ELSE IF remote.error # <<>> THEN Threw(ErrorOCR \o remote.error)
    ELSE Returned(OrElse(ContentOf(remote.txt, remote.text),
                         OrElse(ContentOf(remote.mmd, remote.text), <<>>)))

IsImage(type) == type = "image/png"

\* the catch clause of uploadFileToMathpix
Wrapped(called) ==
    IF called.threw
    THEN Threw(RecognitionFailed \o
               OrElse(called.dataError,
                      OrElse(called.dataMessage,
                             OrElse(called.message, UnknownError))))
    ELSE called

uploadFileToMathpix(type, remote) ==
    Wrapped(IF IsImage(type) THEN uploadImageToMathpix(remote)
            ELSE uploadPDFToMathpix(remote))

-----------------------------------------------------------------------------
(* MathpixService: one scan job, from createScanTask to its last status,   *)
(* and the requests of its result.  The conversion is the one of           *)
(* convertToLatexFormat, step by step.                                     *)

MaxPolls == 2

PollStatuses == {"rejects", "processing", "completed", "error"}

PollRuns == UNION {[1..n -> PollStatuses] : n \in 1..MaxPolls}

\* requests that axios rejects: a timeout, an error response with an error
\* field, one with a message field, an error without any message
Failures ==
    {[message |-> <<"timeout of 300000ms exceeded">>, dataError |-> <<>>,
      dataMessage |-> <<>>],
     [message |-> <<"Request failed with status code 401">>,
      dataError |-> <<"Invalid credentials">>, dataMessage |-> <<>>],
     [message |-> <<"Request failed with status code 500">>,
      dataError |-> <<>>, dataMessage |-> <<"Internal error">>],
     [message |-> <<>>, dataError |-> <<>>, dataMessage |-> <<>>]}

\* what Mathpix recognises: nothing, three characters, eleven characters, a
\* numbered question, a numbered question with a sub-question
OcrTexts ==
    {<<>>, <<"a", "b", "c">>, PieceText, Tail(PieceQuestion),
     Tail(PieceQuestion) \o PieceSub}

FileTypes == {"image/png", "application/pdf"}

\* the ways in which Mathpix answers the requests of a job of a type
Answers(type) ==
    {[NotAsked EXCEPT !.config = FALSE], [NotAsked EXCEPT !.post = "nodata"],
     [NotAsked EXCEPT !.error = <<"bad file">>]}
    \cup {[NotAsked EXCEPT !.post = "rejects", !.failure = f] : f \in Failures}
    \cup (IF IsImage(type)
          THEN {[NotAsked EXCEPT !.txt = t, !.mmd = m, !.text = x] :
                    t \in {"string", "none"}, m \in {"string", "none"},
                    x \in OcrTexts}
          ELSE {[NotAsked EXCEPT !.pdfId = FALSE]}
               \cup {[NotAsked EXCEPT !.polls = p, !.failure = f] :
                         p \in {q \in PollRuns : q[1] = "rejects"},
                         f \in Failures}
               \cup {[NotAsked EXCEPT !.polls = p, !.pollError = e] :
                         p \in {q \in PollRuns : q[1] = "error"},
                         e \in {<<>>, <<"conversion error">>}}
               \cup {[NotAsked EXCEPT !.polls = p, !.mmd = m, !.txt = t,
                                      !.text = x] :
                         p \in {q \in PollRuns :
                                    q[1] \in {"processing", "completed"}},
                         m \in {"rejects", "string", "object"},
                         t \in {"rejects", "string", "object"},
                         x \in OcrTexts})

InitScan ==
    /\ pc = "idle"
    /\ fileType = ""
    /\ scanTask = NoScanTask
    /\ mathpix = NotAsked
    /\ response = NoResponse
    /\ batchTask = NoBatchTask
    /\ files = <<>>
    /\ reprocessed = <<>>
    /\ NoQueue
    /\ NoConversion
    /\ NoQuestion
    /\ NoCalls

\* what a step of the job outside the conversion leaves alone
conversionRest ==
    <<converted, segInfo, questionSegments, i, convertedQuestions, thrown,
      result, earlierSegments>>

besideService == <<questionVars, callVars, columnVars, reprocessed, queueVars>>

\* createScanTask for a file of a type up to scanTasks.set(scanId, task)
CreateScanTask ==
    /\ pc = "idle"
    /\ fileType' \in FileTypes
    /\ scanTask' = [NoScanTask EXCEPT !.status = "pending"]
    /\ pc' = "created"
    /\ UNCHANGED <<mathpix, response, batchTask, files, markdown,
                   conversionRest, besideService>>

\* processScanTask up to  await this.uploadFileToMathpix(fileBuffer, fileType)
ProcessScanTask ==
    /\ pc = "created"
    /\ scanTask.status # "absent"
    /\ scanTask' = [scanTask EXCEPT !.status = "processing", !.progress = 10]
    /\ pc' = "recognising"
    /\ UNCHANGED <<fileType, mathpix, response, batchTask, files, markdown,
                   conversionRest, besideService>>

\* uploadFileToMathpix returns markdown: task.progress = 80, and
\* convertToLatexFormat(markdown) is called
RecognitionReturns ==
    /\ pc = "recognising"
    /\ \E answer \in Answers(fileType) :
           /\ ~uploadFileToMathpix(fileType, answer).threw
           /\ mathpix' = answer
           /\ markdown' = uploadFileToMathpix(fileType, answer).value
    /\ scanTask' = [scanTask EXCEPT !.progress = 80]
    /\ pc' = "start"
    /\ UNCHANGED <<fileType, response, batchTask, files, conversionRest,
                   besideService>>

\* uploadFileToMathpix throws: the catch clause of processScanTask
RecognitionThrows ==
    /\ pc = "recognising"
    /\ \E answer \in Answers(fileType) :
           /\ uploadFileToMathpix(fileType, answer).threw
           /\ mathpix' = answer
           /\ scanTask' =
                  [scanTask EXCEPT
                       !.status = "failed",
                       !.error = OrElse(uploadFileToMathpix(fileType, answer).message,
                                        ScanFailed),
                       !.hasError = TRUE]
    /\ pc' = "settled"
    /\ UNCHANGED <<fileType, response, batchTask, files, markdown,
                   conversionRest, besideService>>

\* the task is marked completed and nothing else: progress and result stay
CompleteStatusOnly ==
    /\ pc = "done"
    /\ scanTask.status = "processing"
    /\ scanTask' = [scanTask EXCEPT !.status = "completed"]
    /\ pc' = "settled"
    /\ UNCHANGED <<fileType, mathpix, response, batchTask, files, markdown,
                   conversionRest, besideService>>

\* convertToLatexFormat has returned: the task is completed
CompleteScanTask ==
    /\ pc = "done"
    /\ scanTask.status = "processing"
    /\ scanTask' = [scanTask EXCEPT !.status = "completed", !.progress = 100,
                                    !.result = result, !.hasResult = TRUE]
    /\ pc' = "settled"
    /\ UNCHANGED <<fileType, mathpix, response, batchTask, files, markdown,
                   conversionRest, besideService>>

\* GET /result/:scanId for a task
ResultResponse(task) ==
    IF task.status = "absent"
    THEN [code |-> 404, success |-> FALSE, result |-> <<>>]
    ELSE IF task.status # "completed"
    THEN [code |-> 400, success |-> FALSE, result |-> <<>>]
    ELSE IF ~task.hasResult \/ task.result = <<>>
    THEN [code |-> 500, success |-> FALSE, result |-> <<>>]
    ELSE [code |-> 200, success |-> TRUE, result |-> task.result]

\* a request of the result, handled between two steps of the job
GetResult ==
    /\ pc \in {"idle", "recognising", "settled"}
    /\ response' = ResultResponse(scanTask)
    /\ UNCHANGED <<pc, scanTask, fileType, mathpix, batchTask, files, markdown,
                   conversionRest, besideService>>

NextScan ==
    \/ CreateScanTask
    \/ ProcessScanTask
    \/ RecognitionReturns
    \/ RecognitionThrows
    \/ Preprocess
    \/ SplitQuestions
    \/ ConvertSegment
    \/ ConvertFails
    \/ Return
    \/ CompleteScanTask
    \/ GetResult

SpecScan == InitScan /\ [][NextScan]_vars

-----------------------------------------------------------------------------
(* MathpixService: one batch, from createBatchTask to its last status.     *)
(* The files go through processingQueue; file t is task t.                 *)

MaxFiles == 4

\* the answers of Mathpix to the requests of a file of a batch
BatchAnswers(type) ==
    IF IsImage(type)
    THEN {[NotAsked EXCEPT !.txt = "string", !.text = Tail(PieceQuestion)],
          [NotAsked EXCEPT !.txt = "none"],
          [NotAsked EXCEPT !.post = "rejects",
                           !.failure = [message |-> <<>>, dataError |-> <<>>,
                                        dataMessage |-> <<>>]]}
    ELSE {[NotAsked EXCEPT !.polls = <<"completed">>, !.mmd = "string",
                           !.text = PieceText],
          [NotAsked EXCEPT !.polls = <<"processing", "completed">>,
                           !.mmd = "string", !.text = PieceText],
          [NotAsked EXCEPT !.pdfId = FALSE]}

\* the file types of a batch of n files: images and PDFs in turn
TypeRuns(n) ==
    {[t \in 1..n |-> IF t % 2 = first THEN "image/png" ELSE "application/pdf"] :
         first \in {0, 1}}

NewFile(type) ==
    [fileType |-> type, status |-> "pending", progress |-> 0,
     result |-> <<>>, hasResult |-> FALSE, error |-> <<>>, hasError |-> FALSE,
     answer |-> NotAsked]

RECURSIVE TotalProgress(_)
TotalProgress(fs) ==
    IF fs = <<>> THEN 0 ELSE Head(fs).progress + TotalProgress(Tail(fs))

\* Math.floor(total / count): the mean without rounding
RoundedDown(total, count) == total \div count

\* Math.round(total / count)
Round(total, count) == (2 * total + count) \div (2 * count)

\* updateBatchProgress: batchTask.overallProgress for files fs
OverallProgress(fs) == Round(TotalProgress(fs), Len(fs))

\* processFileInBatch for file t of fs up to
\* await this.uploadFileToMathpix(fileBuffer, fileType); t = 0: no file
FileStarted(fs, t) ==
    IF t = 0 THEN fs
    ELSE [fs EXCEPT ![t].status = "mathpix-processing", ![t].progress = 30]

\* processFileInBatch for a file behind that await when uploadFileToMathpix
\* has returned: up to the call of convertToLatexFormat(markdown)
FileConverting(file) == [file EXCEPT !.status = "converting", !.progress = 70]

\* the file with the answer of Mathpix on record
Answered(file, answer) == [file EXCEPT !.answer = answer]

\* a catch clause that takes the file for completed
FailureUnrecorded(file, thrownError) ==
    [file EXCEPT !.status = "completed", !.progress = 100]

\* the catch clause of processFileInBatch for the error thrown
FileFailure(file, thrownError) ==
    [file EXCEPT !.status = "failed",
                 !.error = OrElse(thrownError.message, FileFailed),
                 !.hasError = TRUE]

\* convertToLatexFormat has returned converted
FileCompleted(file, convertedMarkdown) ==
    [file EXCEPT !.status = "completed", !.progress = 100,
                 !.result = convertedMarkdown, !.hasResult = TRUE]

\* the number of files of fs in a status
CountStatus(fs, status) == Cardinality({t \in 1..Len(fs) : fs[t].status = status})

InitBatch ==
    /\ pc = "idle"
    /\ batchTask = NoBatchTask
    /\ files = <<>>
    /\ scanTask = NoScanTask
    /\ fileType = ""
    /\ mathpix = NotAsked
    /\ response = NoResponse
    /\ reprocessed = <<>>
    /\ NoQueue
    /\ NoConversion
    /\ NoQuestion
    /\ NoCalls

besideBatch ==
    <<scanTask, fileType, mathpix, response, reprocessed, questionVars,
      callVars, columnVars>>

\* createBatchTask up to batchTasks.set(batchId, batchTask)
CreateBatchTask ==
    /\ pc = "idle"
    /\ \E n \in 1..MaxFiles : \E types \in TypeRuns(n) :
           /\ files' = [t \in 1..n |-> NewFile(types[t])]
           /\ batchTask' = [NoBatchTask EXCEPT !.status = "pending",
                                               !.totalFiles = n]
           /\ taskState' = [t \in 1..n |-> "new"]
           /\ outcome' = [t \in 1..n |-> "none"]
           /\ promise' = [t \in 1..n |-> "none"]
    /\ pc' = "created"
    /\ UNCHANGED <<queue, processing, startOrder, waited, markdown,
                   conversionRest, besideBatch>>

\* processBatchTask up to files.map
ProcessBatchTask ==
    /\ pc = "created"
    /\ batchTask.status # "absent"
    /\ batchTask' = [batchTask EXCEPT !.status = "processing"]
    /\ pc' = "adding"
    /\ UNCHANGED <<files, queueVars, markdown, conversionRest, besideBatch>>

\* processingQueue.add for file t, the next one of files.map; behind the
\* last one processBatchTask is at  await Promise.allSettled(filePromises)
AddFile(t) ==
    /\ pc = "adding"
    /\ taskState[t] = "new"
    /\ \A u \in 1..(t - 1) : taskState[u] # "new"
    /\ promise' = [promise EXCEPT ![t] = "pending"]
    /\ queue' = QueueAfter(Append(queue, t), processing)
    /\ processing' = ProcessingAfter(Append(queue, t), processing)
    /\ taskState' = StatesAfter(Append(queue, t), processing,
                                [taskState EXCEPT ![t] = "queued"])
    /\ startOrder' = StartsAfter(Append(queue, t), processing, startOrder)
    /\ waited' = (waited \/ Shifted(Append(queue, t), processing) # t)
    /\ files' = FileStarted(files, Shifted(Append(queue, t), processing))
    /\ batchTask' =
           IF Shifted(Append(queue, t), processing) = 0 THEN batchTask
           ELSE [batchTask EXCEPT !.overallProgress = OverallProgress(files')]
    /\ pc' = IF t = batchTask.totalFiles THEN "waiting" ELSE "adding"
    /\ UNCHANGED <<outcome, markdown, conversionRest, besideBatch>>

\* uploadFileToMathpix returns for file t: processFileInBatch goes on up to
\* the call of convertToLatexFormat(markdown)
FileRecognised(t) ==
    /\ pc = "waiting"
    /\ taskState[t] = "running"
    /\ \E answer \in BatchAnswers(files[t].fileType) :
           /\ ~uploadFileToMathpix(files[t].fileType, answer).threw
           /\ markdown' = uploadFileToMathpix(files[t].fileType, answer).value
           /\ files' = [files EXCEPT ![t] =
                            FileConverting(Answered(files[t], answer))]
    /\ batchTask' = [batchTask EXCEPT !.overallProgress = OverallProgress(files')]
    /\ pc' = "start"
    /\ UNCHANGED <<queueVars, conversionRest, besideBatch>>

\* uploadFileToMathpix throws for file t: the catch clause, and
\* processFileInBatch returns
FileRecognitionFails(t) ==
    /\ pc = "waiting"
    /\ taskState[t] = "running"
    /\ \E answer \in BatchAnswers(files[t].fileType) :
           /\ uploadFileToMathpix(files[t].fileType, answer).threw
           /\ files' = [files EXCEPT ![t] =
                            FileFailure(Answered(files[t], answer),
                                        uploadFileToMathpix(files[t].fileType,
                                                            answer))]
    /\ batchTask' = [batchTask EXCEPT !.overallProgress = OverallProgress(files')]
    /\ taskState' = [taskState EXCEPT ![t] = "settled"]
    /\ outcome' = [outcome EXCEPT ![t] = "fulfilled"]
    /\ UNCHANGED <<pc, queue, processing, promise, startOrder, waited, markdown,
                   conversionRest, besideBatch>>

\* convertToLatexFormat has returned for file t: the file is completed and
\* processFileInBatch returns
FileConverted(t) ==
    /\ pc = "done"
    /\ files[t].status = "converting"
    /\ files' = [files EXCEPT ![t] = FileCompleted(files[t], result)]
    /\ batchTask' = [batchTask EXCEPT !.overallProgress = OverallProgress(files')]
    /\ taskState' = [taskState EXCEPT ![t] = "settled"]
    /\ outcome' = [outcome EXCEPT ![t] = "fulfilled"]
    /\ pc' = "waiting"
    /\ markdown' = <<>>
    /\ converted' = <<>>
    /\ segInfo' = <<>>
    /\ questionSegments' = <<>>
    /\ i' = 0
    /\ convertedQuestions' = <<>>
    /\ thrown' = {}
    /\ result' = <<>>
    /\ UNCHANGED earlierSegments
    /\ UNCHANGED <<queue, processing, promise, startOrder, waited, besideBatch>>

\* process() behind  await task()  for file t: finally processing--,
\* this.process(), which starts the next file
FileProcessResumes(t) ==
    /\ pc \in {"waiting", "settled"}
    /\ taskState[t] = "wrapped"
    /\ queue' = QueueAfter(queue, processing - 1)
    /\ processing' = ProcessingAfter(queue, processing - 1)
    /\ taskState' = StatesAfter(queue, processing - 1,
                                [taskState EXCEPT ![t] = "finished"])
    /\ startOrder' = StartsAfter(queue, processing - 1, startOrder)
    /\ files' = FileStarted(files, Shifted(queue, processing - 1))
    /\ batchTask' =
           IF Shifted(queue, processing - 1) = 0 THEN batchTask
           ELSE [batchTask EXCEPT !.overallProgress = OverallProgress(files')]
    /\ UNCHANGED <<pc, outcome, promise, waited, markdown, conversionRest,
                   besideBatch>>

\* processBatchTask behind  await Promise.allSettled(filePromises)
BatchSettles ==
    /\ pc = "waiting"
    /\ \A t \in 1..batchTask.totalFiles : promise[t] \in {"fulfilled", "rejected"}
    /\ batchTask' =
           [batchTask EXCEPT
                !.completedFiles = CountStatus(files, "completed"),
                !.failedFiles = CountStatus(files, "failed"),
                !.overallProgress = 100,
                !.status = IF CountStatus(files, "completed") > 0
                           THEN "completed" ELSE "failed"]
    /\ pc' = "settled"
    /\ UNCHANGED <<files, queueVars, markdown, conversionRest, besideBatch>>

NextBatch ==
    \/ CreateBatchTask
    \/ ProcessBatchTask
    \/ Preprocess
    \/ SplitQuestions
    \/ ConvertSegment
    \/ ConvertFails
    \/ Return
    \/ BatchSettles
    \/ \E t \in 1..batchTask.totalFiles :
           \/ AddFile(t)
           \/ FileRecognised(t)
           \/ FileRecognitionFails(t)
           \/ FileConverted(t)
           \/ pc \in {"waiting", "settled"} /\ WrapperResumes(t)
           \/ FileProcessResumes(t)

SpecBatch == InitBatch /\ [][NextBatch]_vars

\* the service with a scan job or a batch
NextService ==
    \/ CreateScanTask
    \/ ProcessScanTask
    \/ RecognitionReturns
    \/ RecognitionThrows
    \/ CompleteScanTask
    \/ NextBatch

SpecService == InitBatch /\ [][NextService]_vars

-----------------------------------------------------------------------------
(* Properties of convertToLatexFormat.                                     *)

\* the state right after splitQuestions has returned
AfterSplit == pc = "loop" /\ i = 0

\* what the loop is to push for segment k: the segment as it is when its
\* conversion threw, its conversion otherwise
EntryOf(k) ==
    IF (k - 1) \in thrown THEN questionSegments[k]
    ELSE convertQuestion(questionSegments[k])

\* C1: if converting segment i throws, the output entry at position i is the
\* segment's original text, every other segment is converted as usual, and
\* the function returns as usual: every pass of the loop leaves one entry,
\* the function returns only after the last segment, and entry k of what it
\* joins is the original segment k where the conversion threw and the
\* conversion of segment k where it did not.
C1_FailedSegmentKeepsItsText ==
    /\ pc = "loop" => Len(convertedQuestions) = i /\ thrown \subseteq 0..(i - 1)
    /\ pc = "done" =>
           /\ i = Len(questionSegments)
           /\ Len(convertedQuestions) = i
           /\ \A k \in 1..i : convertedQuestions[k] = EntryOf(k)

\* C1 witness: the function has returned, one conversion threw and another
\* segment was converted to a different text
C1_Witness ==
    /\ pc = "done"
    /\ thrown # {}
    /\ \E k \in 1..i : /\ (k - 1) \notin thrown
                       /\ convertedQuestions[k] # questionSegments[k]

\* the offset of entry k in the text that joins the entries with a
\* separator of two characters
RECURSIVE OffsetOf(_)
OffsetOf(k) ==
    IF k = 1 THEN 0 ELSE OffsetOf(k - 1) + Len(convertedQuestions[k - 1]) + 2

\* C2: the returned text is exactly the per-segment results joined by "\n\n",
\* in the order of the segments, one entry per segment: there are as many
\* entries as segments, entry k is the result for segment k and stands at
\* the offset left by the entries before it and their separators, a blank
\* line follows every entry but the last, and nothing follows the last.
C2_ResultIsEntriesJoinedByBlankLine ==
    pc = "done" =>
        /\ Len(convertedQuestions) = Len(questionSegments)
        /\ \A k \in 1..Len(convertedQuestions) :
               /\ convertedQuestions[k] = EntryOf(k)
               /\ SubSeq(result, OffsetOf(k) + 1,
                         OffsetOf(k) + Len(convertedQuestions[k]))
                      = convertedQuestions[k]
               /\ IF k < Len(convertedQuestions)
                  THEN SubSeq(result, OffsetOf(k) + Len(convertedQuestions[k]) + 1,
                              OffsetOf(k) + Len(convertedQuestions[k]) + 2)
                           = <<"\n", "\n">>
                  ELSE Len(result) = OffsetOf(k) + Len(convertedQuestions[k])
        /\ questionSegments = <<>> => result = <<>>

\* C2 witness: a text of three segments has been assembled
C2_Witness == pc = "done" /\ Len(questionSegments) >= 3 /\ thrown = {}

\* the placeholder of a math span at position k of s: its end, 0 if none
MathTokenEnd(s, k) ==
    IF TokenEnd(s, k, LatexBlockPrefix) > 0 THEN TokenEnd(s, k, LatexBlockPrefix)
    ELSE TokenEnd(s, k, LatexInlinePrefix)

HasMathToken(s) == \E k \in 1..Len(s) : MathTokenEnd(s, k) > 0

\* the index that the placeholder at m..e carries
MathTokenIndex(s, m, e) ==
    ParseInt(SubSeq(s, Greatest({j \in m..e : s[j] \notin Digit \cup {"_"}}) + 2,
                    e - Len(TokenSuffix)))

\* the text of the input that an entry of the placeholder list stands for
SpanText(list, n) == RestoreTokens(list[n + 1], LatexBlockPrefix, list)

\* the math spans of the input whose placeholders stand in s from k on
RECURSIVE SpansFrom(_, _, _)
SpansFrom(s, k, list) ==
    LET m == Least({j \in k..Len(s) : MathTokenEnd(s, j) > 0})
    IN  IF m = 0 THEN <<>>
        ELSE <<SpanText(list, MathTokenIndex(s, m, MathTokenEnd(s, m)))>>
                 \o SpansFrom(s, MathTokenEnd(s, m) + 1, list)

\* the spans occur in s from position k on, one after the other
RECURSIVE OccurInOrder(_, _, _)
OccurInOrder(s, k, spans) ==
    \/ spans = <<>>
    \/ /\ IndexOfFrom(s, Head(spans), k) > 0
       /\ OccurInOrder(s, IndexOfFrom(s, Head(spans), k) + Len(Head(spans)),
                       Tail(spans))

\* C3: every math span of the input that lies in a retained segment appears
\* in that segment verbatim and contiguous, in the original order, and no
\* __LATEX_BLOCK_n__ or __LATEX_INLINE_n__ placeholder remains in a segment.
C3_MathSpansSurviveSegmentation ==
    AfterSplit =>
        \A k \in 1..Len(segInfo) :
            /\ ~HasMathToken(questionSegments[k])
            /\ OccurInOrder(questionSegments[k], 1,
                   SpansFrom(segInfo[k].part, 1, ProtectMath(converted).list))

\* the spans that replaceTopLevelFrac protects in content: the exponent
\* groups, and the \dfrac arguments with the exponent groups put back
ExponentSpans(content) ==
    ProtectFrom(content, 1, PatternOf("fracGroup", ExponentOpen),
                ProtectedExponentPrefix, <<>>)

NestedSpans(content) ==
    ProtectFrom(ExponentSpans(content).text, 1, PatternOf("fracGroup", DfracOpen),
                ProtectedNestedPrefix, <<>>)

\* C4: every span that replaceTopLevelFrac protects is restored verbatim:
\* the output of preprocessContent holds no __PROTECTED_EXPONENT_n__ and no
\* __PROTECTED_NESTED_n__ token, and every protected span stands in the
\* output with the text it has in the input.
C4_FractionSpansSurvivePreprocess ==
    pc = "preprocessed" =>
        /\ ~Test(converted, PatternOf("token", ProtectedExponentPrefix))
        /\ ~Test(converted, PatternOf("token", ProtectedNestedPrefix))
        /\ \A n \in 1..Len(ExponentSpans(markdown).list) :
               Includes(converted, ExponentSpans(markdown).list[n])
        /\ \A n \in 1..Len(NestedSpans(markdown).list) :
               Includes(converted,
                   RestoreTokens(NestedSpans(markdown).list[n],
                                 ProtectedExponentPrefix,
                                 ExponentSpans(markdown).list))

\* an opaque token: eighteen characters that no pattern of the splitter reads
OpaqueToken == [k \in 1..18 |-> "U+25A0"]

\* the text with every math span replaced by the opaque token
Opaque(content) ==
    ReplaceAll(ReplaceAll(content, Pattern("blockMath"), OpaqueToken),
               Pattern("inlineMath"), OpaqueToken)

\* a part of the protected text with every placeholder replaced by the
\* opaque token
OpaquePart(part) ==
    ReplaceAll(ReplaceAll(part, PatternOf("token", LatexBlockPrefix), OpaqueToken),
               PatternOf("token", LatexInlinePrefix), OpaqueToken)

\* the numbered questions of the text in which the math spans are opaque
OpaqueRecords == NumberedRecords(Opaque(converted))

\* the entries are those of opaque as far as boundaries and sections go;
\* where opaque has none, the only entry there can be is the whole text
SameBoundaries(records, opaque) ==
    IF opaque = <<>>
    THEN /\ Len(records) <= 1
         /\ \A k \in 1..Len(records) : records[k].restored = Trim(converted)
    ELSE /\ Len(records) = Len(opaque)
         /\ \A k \in 1..Len(records) :
                /\ OpaquePart(records[k].part) = opaque[k].part
                /\ records[k].section = opaque[k].section

\* C5: a question-numbering pattern or a section marker inside a math span
\* never starts a segment: the numbered segments are as many, lie in the
\* same sections and have the same boundaries as those of the text in which
\* every math span is replaced by an opaque token, and when that text has
\* no numbered segment the only segment there can be is the whole text.
C5_MarkersInsideMathStartNoSegment ==
    AfterSplit => SameBoundaries(segInfo, OpaqueRecords)

\* C5 witness: the text has a numbering pattern that lies inside a math span,
\* and it has been split into numbered segments
C5_Witness ==
    /\ AfterSplit
    /\ OpaqueRecords # <<>>
    /\ MarkerCount(converted, "question")
           > MarkerCount(ProtectMath(converted).text, "question")

\* the text that the earlier splitQuestions is given
EarlierContent == preprocessContentEarlier(markdown)

\* C6: for every text whose trimmed length is greater than 10 the segmenter
\* returns at least one segment, and when no numbered segment survives it
\* returns exactly one segment that holds the whole text; in the later and
\* in the earlier version.
C6_LongTextYieldsASegment ==
    /\ AfterSplit /\ Len(Trim(converted)) > 10 =>
           /\ Len(questionSegments) >= 1
           /\ \/ questionSegments = <<ItemPrefix \o Trim(converted)>>
              \/ NumberedRecords(converted) # <<>>
    /\ pc = "earlier" /\ Len(Trim(EarlierContent)) > 10 =>
           /\ Len(earlierSegments) >= 1
           /\ \/ earlierSegments = <<Trim(EarlierContent)>>
              \/ EarlierLoop(Split(EarlierContent, "question"), 2, <<>>) # <<>>

\* C6 witness: a text of more than 10 characters in which no numbered
\* segment survives, although it has a numbering marker
C6_Witness ==
    /\ AfterSplit
    /\ Len(Trim(converted)) > 10
    /\ NumberedRecords(converted) = <<>>
    /\ MarkerCount(converted, "question") > 0

\* the numbering markers that the split finds in sections[k + 1], ...
RECURSIVE MarkersInSections(_, _)
MarkersInSections(sections, k) ==
    IF k + 1 > Len(sections) THEN 0
    ELSE MarkerCount(sections[k + 1].text, "question")
             + MarkersInSections(sections, k + 2)

\* the numbering markers that the split finds: those of the trimmed content
\* before the first section marker and those of every section's content,
\* each taken by itself, with the math spans protected
MarkersFound(content) ==
    MarkerCount(Trim(Split(ProtectMath(content).text, "section")[1].text), "question")
        + MarkersInSections(Split(ProtectMath(content).text, "section"), 2)

\* C7 as stated: the number of segments never exceeds the number of
\* question-numbering markers (line-anchored digits and one of the three
\* delimiters) found in the text.
C7_SegmentsWithinMarkersOfText ==
    AfterSplit => Len(questionSegments) <= MarkerCount(converted, "question")

\* C7 amended: the number of segments never exceeds the number of numbering
\* markers that the split finds, with the math spans protected, in the
\* content before the first section marker and in each section's content
\* taken by itself, or 1 where that number is 0.
C7_SegmentsWithinMarkersFound ==
    AfterSplit =>
        Len(questionSegments) <=
            (IF MarkersFound(converted) = 0 THEN 1 ELSE MarkersFound(converted))

\* C7 witness: two or more segments, more than the text has line-anchored
\* numbering markers
C7_Witness ==
    /\ AfterSplit
    /\ Len(questionSegments) >= 2
    /\ Len(questionSegments) > MarkerCount(converted, "question")

\* C8: no returned segment has a source text whose trimmed length, taken
\* after the math spans are restored, is 10 characters or fewer.
C8_NoShortSegmentAfterRestoration ==
    AfterSplit =>
        \A k \in 1..Len(segInfo) : Len(Trim(segInfo[k].restored)) > 10

\* C9: if the text holds a sub-question marker, the segmenter returns the
\* entire text as a single segment and splits on no question number.
C9_SubQuestionsKeepTextWhole ==
    AfterSplit /\ HasSubQuestions(converted) =>
        /\ Len(questionSegments) = 1
        /\ segInfo[1].restored = Trim(converted)

\* the text in which the start offsets of the entries count
SourceText ==
    IF NumberedRecords(converted) = <<>> THEN converted
    ELSE ProtectMath(converted).text

\* C10: segment order is document order: the segments of the content before
\* the first section marker come first, then those of each section in
\* section order, and of any two segments the one whose source text starts
\* earlier comes first (every entry's source text stands at its start
\* offset, and the offsets grow along the output).
C10_SegmentsInDocumentOrder ==
    AfterSplit =>
        /\ \A k \in 1..Len(segInfo) :
               SubSeq(SourceText, segInfo[k].start + 1,
                      segInfo[k].start + Len(segInfo[k].part)) = segInfo[k].part
        /\ \A a, b \in 1..Len(segInfo) :
               a < b => /\ segInfo[a].section <= segInfo[b].section
                        /\ segInfo[a].start < segInfo[b].start

\* C10 witness: a segment from before the first section marker and a
\* segment from a section
C10_Witness ==
    /\ AfterSplit
    /\ Len(segInfo) >= 2
    /\ segInfo[1].section = 0
    /\ segInfo[Len(segInfo)].section >= 1

-----------------------------------------------------------------------------
(* Properties of convertQuestion and of the converters.                    *)

\* C11: the tests are made in a fixed order and the first match wins: a
\* segment with an option line is multiple-choice when it holds a
\* multiple-choice word and choice otherwise, whether or not it also holds a
\* blank or ends like a question that expects an answer; without an option
\* line such a blank or ending makes it fill; anything else is solution; the
\* type is always one of the four
C11_FirstMatchingTestDecidesType ==
    pc \in {"typed", "returned"} =>
        /\ questionType \in {"choice", "multiple-choice", "fill", "solution"}
        /\ HasOptions(TagFree(questionClean)) =>
               /\ questionType \in {"choice", "multiple-choice"}
               /\ questionType = "multiple-choice"
                      <=> \E w \in MultipleWords :
                              Includes(TagFree(questionClean), w)
        /\ ~HasOptions(TagFree(questionClean)) =>
               /\ questionType \in {"fill", "solution"}
               /\ questionType = "fill"
                      <=> \/ HasBlank(TagFree(questionClean))
                          \/ FillEnding(TagFree(questionClean))

\* an option line together with a blank and an ending that expects an answer
C11_Witness ==
    /\ pc = "typed"
    /\ HasOptions(TagFree(questionClean))
    /\ HasBlank(TagFree(questionClean))
    /\ FillEnding(TagFree(questionClean))
    /\ questionType = "choice"

\* C12: the conversion is a function of its input and keeps nothing from one
\* call to the next: two calls on the same document return the same text,
\* whatever documents were converted before or between them
C12_SameDocumentSameResult ==
    \A c, d \in CallIds :
        /\ calls[c].pc = "done"
        /\ calls[d].pc = "done"
        /\ calls[c].markdown = calls[d].markdown
        => calls[c].result = calls[d].result

\* two finished calls on one document with an option line and a finished
\* call on another document, the regular expression having matched last
C12_Witness ==
    \E c, d, e \in CallIds :
        /\ c # d
        /\ calls[c].pc = "done" /\ calls[d].pc = "done" /\ calls[e].pc = "done"
        /\ calls[c].markdown = calls[d].markdown
        /\ calls[e].markdown # calls[c].markdown
        /\ HasOptions(calls[c].converted)
        /\ lastIndex > 0

\* the text ends in "的值为", an optional stop and whitespace
EndsInValueIs(s) ==
    \E k \in 1..Len(s) : StartsWithAt(s, k, ValueIs) /\ TailOnly(s, k + Len(ValueIs))

\* the positions at which word occurs in s
Occurrences(s, word) == {k \in 1..Len(s) : StartsWithAt(s, k, word)}

\* C13: a segment without an option line that ends in "的值为" (an optional
\* stop and whitespace may follow) is a fill question, and what the fill
\* converter returns for it holds exactly one \underlines
C13_ValueIsEndingGetsOneBlank ==
    /\ pc = "returned"
    /\ ~HasOptions(TagFree(questionClean))
    /\ EndsInValueIs(TagFree(questionClean))
    => /\ questionType = "fill"
       /\ Cardinality(Occurrences(questionConverted, Underlines)) = 1

\* the positions at which a sub-question marker starts
Markers(s) == {k \in 1..Len(s) : SubMarkerEnd(s, k) > 0}

\* the sub-part of the marker at k: the text up to the next marker, trimmed
PartAfter(s, k) ==
    Trim(SubSeq(s, SubMarkerEnd(s, k) + 1,
                Before(Least({j \in Markers(s) : j > k}), Len(s))))

\* what the claim says of a solution segment with more than one marker:
\* with a stem word no problem block and one \item per sub-part, without one
\* a single problem block with one \item line per sub-part (behind the \item
\* that convertQuestion puts in front of the block)
ItemPerSubPart ==
    IF \E w \in StemWords : Includes(questionClean, w)
    THEN /\ ~Includes(questionConverted, BeginProblem)
         /\ Cardinality(Occurrences(questionConverted, ItemMarker))
                = Cardinality(Markers(questionClean))
         /\ Cardinality(Occurrences(questionConverted, <<"\n", "\n">> \o ItemMarker))
                = Cardinality(Markers(questionClean)) - 1
    ELSE /\ StartsWithAt(questionConverted, 1, ItemPrefix \o BeginProblem)
         /\ Cardinality(Occurrences(questionConverted, BeginProblem)) = 1
         /\ Cardinality(Occurrences(questionConverted, EndProblem)) = 1
         /\ StartsWithAt(questionConverted,
                         Len(questionConverted) - Len(EndProblem) + 1, EndProblem)
         /\ Cardinality(Occurrences(questionConverted, <<"\n">> \o ItemMarker))
                = Cardinality(Markers(questionClean))

VisibleSum == SumOfLengths([k \in 1..Len(optionList) |-> OptionCleanText(optionList[k])])

Min(a, b) == IF a <= b THEN a ELSE b

\* C15: for n >= 1 options of average visible length L the column count is
\* min(n, 2) when L > 30, min(n, 3) when 15 < L <= 30, min(n, 4) when
\* 8 < L <= 15 and min(n, 6) otherwise; it lies between 1 and 6, never
\* exceeds n, and no greater L gives more columns for the same n
C15_ColumnsFromAverageLength ==
    pc = "columns" /\ Len(optionList) >= 1 =>
        LET n == Len(optionList)
        IN  /\ columns = IF VisibleSum > 30 * n THEN Min(n, 2)
                         ELSE IF VisibleSum > 15 * n THEN Min(n, 3)
                         ELSE IF VisibleSum > 8 * n THEN Min(n, 4)
                         ELSE Min(n, 6)
            /\ columns \in 1..6
            /\ columns <= n
            /\ \A longer \in VisibleSum..(41 * n) : Columns(n, longer) <= columns

\* four options of forty characters are set in two columns
C15_Witness ==
    /\ pc = "columns"
    /\ Len(optionList) = 4
    /\ VisibleSum = 160
    /\ columns = 2

\* the document is one numbered question: it starts with a question number
\* and no other question or section marker is found outside math
OneNumberedQuestion ==
    /\ QuestionBodyEnd(Trim(markdown), 1) > 0
    /\ MarkerCount(ProtectMath(Trim(markdown)).text, "question") = 1
    /\ MarkerCount(ProtectMath(Trim(markdown)).text, "section") = 0

\* the body of that question: what follows the number, its delimiter and
\* whitespace
BodyOfQuestion ==
    SubSeq(Trim(markdown), QuestionBodyEnd(Trim(markdown), 1) + 1,
           Len(Trim(markdown)))

\* the body is plain: no option line, no blank, no ending that expects an
\* answer, no sub-question marker and no score annotation
PlainBody(body) ==
    /\ ~HasOptions(TagFree(body))
    /\ ~HasBlank(TagFree(body))
    /\ ~FillEnding(TagFree(body))
    /\ ~HasSubQuestions(body)
    /\ removeScoreInfo(body) = body

C17_PreprocessIsIdempotent ==
    pc = "again" => reprocessed = converted

\* the opening braces less the closing braces of s in a..b
RECURSIVE Balance(_, _, _)
Balance(s, a, b) ==
    IF a > b THEN 0
    ELSE (IF s[a] = "{" THEN 1 ELSE IF s[a] = "}" THEN -1 ELSE 0)
             + Balance(s, a + 1, b)

\* every closing brace of s closes an opening brace, and none stays open
BracesBalanced(s) ==
    /\ Balance(s, 1, Len(s)) = 0
    /\ \A k \in 1..Len(s) : Balance(s, 1, k) >= 0

\* the closing brace of the group that the brace at b opens
GroupClose(s, b) ==
    Least({c \in (b + 1)..Len(s) : s[c] = "}" /\ Balance(s, b + 1, c - 1) = 0})

\* position p lies in an exponent group ^{...} or in the argument of a
\* \dfrac{...} of s
InsideGroup(s, p) ==
    \E o \in 1..(p - 1) :
        \/ StartsWithAt(s, o, ExponentOpen)
               /\ o + Len(ExponentOpen) <= p
               /\ GroupClose(s, o + Len(ExponentOpen) - 1) > p
        \/ StartsWithAt(s, o, DfracOpen)
               /\ o + Len(DfracOpen) <= p
               /\ GroupClose(s, o + Len(DfracOpen) - 1) > p

\* s from position k on, every \frac outside such groups made a \dfrac
RECURSIVE TopLevelRewritten(_, _)
TopLevelRewritten(s, k) ==
    IF k > Len(s) THEN <<>>
    ELSE IF StartsWithAt(s, k, Frac) /\ At(s, k + Len(Frac)) \notin WordChar
            /\ ~InsideGroup(s, k)
    THEN Dfrac \o TopLevelRewritten(s, k + Len(Frac))
    ELSE <<s[k]>> \o TopLevelRewritten(s, k + 1)

\* C18: in what preprocessContent returns every \frac of the input has become
\* \dfrac except those nested in an exponent group ^{...} and those nested
\* in the argument of a \dfrac{...} of the input, which are \frac as before,
\* whatever other brace groups stand before them in that group (documents
\* with balanced braces)
C18_TopLevelFractionsRewritten ==
    pc = "preprocessed" /\ BracesBalanced(markdown) =>
        converted = Trim(TopLevelRewritten(markdown, 1))

-----------------------------------------------------------------------------
(* Properties of ProcessingQueue.                                          *)

\* the tasks that process() has started and whose  finally  has not run
InProgress == {t \in TaskIds : taskState[t] \in {"running", "settled", "wrapped"}}

\* C19: in every state that add calls and completions, successful or failing,
\* can lead to, the number of tasks started and not yet finished is the
\* processing counter, and it lies between 0 and maxConcurrent = 3
C19_AtMostMaxConcurrentInProgress ==
    pc = "queue" =>
        /\ processing = Cardinality(InProgress)
        /\ processing \in 0..maxConcurrent
        /\ maxConcurrent = 3

\* three tasks in progress, one waiting, one task failed and finished
C19_Witness ==
    /\ pc = "queue"
    /\ processing = 3
    /\ queue # <<>>
    /\ \E t \in TaskIds : taskState[t] = "finished" /\ outcome[t] = "rejected"

\* the tasks that add has taken
Added == {t \in TaskIds : taskState[t] # "new"}

\* the tasks that have been started
Started == {startOrder[k] : k \in 1..Len(startOrder)}

\* the queue is first in, first out and drops nothing: the tasks were started
\* in the order of their add calls, the tasks added and not started wait in
\* that order, no task waits while a slot is free, and a promise is settled
\* only with the outcome of its own task
QueueInOrder ==
    /\ \A k \in 1..Len(startOrder) : startOrder[k] = k
    /\ queue = [k \in 1..(Cardinality(Added) - Len(startOrder)) |->
                    Len(startOrder) + k]
    /\ queue # <<>> => processing = maxConcurrent
    /\ \A t \in TaskIds :
           /\ promise[t] \in {"fulfilled", "rejected"} =>
                  promise[t] = outcome[t] /\ t \in Started
           /\ t \in Added => promise[t] # "none"

\* C20: the queue is first in, first out and rejects no work: tasks begin in
\* the order in which they were added and a full pool only delays them; as
\* every running task finishes sooner or later, every task added is started
\* and the promise that add returned is settled with that task's outcome
C20_EveryTaskStartedInOrderAndSettled ==
    /\ [](pc = "queue" => QueueInOrder)
    /\ \A t \in TaskIds :
           /\ (t \in Added) ~> (t \in Started)
           /\ (t \in Added) ~> (promise[t] \in {"fulfilled", "rejected"}
                                   /\ promise[t] = outcome[t])

\* add has left a task waiting, and every task has been started and has
\* finished, the last one with its promise rejected
C20_Witness ==
    /\ pc = "queue"
    /\ waited
    /\ Len(startOrder) = MaxTasks
    /\ \A t \in TaskIds : taskState[t] = "finished" /\ promise[t] = outcome[t]
    /\ promise[MaxTasks] = "rejected"

-----------------------------------------------------------------------------
(* Properties of MathpixService.                                           *)

\* the polling of a PDF job was reached
Polled(type, answer) ==
    /\ ~IsImage(type)
    /\ answer.config
    /\ answer.post = "data"
    /\ answer.error = <<>>
    /\ answer.pdfId

\* the failures of the Mathpix service: a request that fails or times out,
\* an error field, no pdf id, a terminal error status, a job that is not
\* completed in time, a completed job without content
CollaboratorFailed(type, answer) ==
    /\ answer.config
    /\ \/ answer.post = "rejects"
       \/ answer.post = "data" /\ answer.error # <<>>
       \/ ~IsImage(type) /\ answer.post = "data" /\ answer.error = <<>>
              /\ ~answer.pdfId
       \/ /\ Polled(type, answer)
          /\ \/ answer.polls[1] \in {"rejects", "error", "failed", "processing"}
             \/ /\ answer.polls[1] = "completed"
                /\ \A kind \in {answer.mmd, answer.txt} :
                       kind \notin {"string", "object"} \/ answer.text = <<>>

\* a record of a job or of a file that failed with a message and no result
FailedWithMessage(task) ==
    /\ task.status = "failed"
    /\ task.hasError
    /\ task.error # <<>>
    /\ ~task.hasResult
    /\ task.result = <<>>

ScanJobAnswered ==
    scanTask.status # "absent" /\ pc \notin {"idle", "created", "recognising"}

FileAnswered(t) == files[t].status \in {"converting", "completed", "failed"}

ScanJobEnded == pc = "settled" /\ scanTask.status \in {"completed", "failed"}

\* C22: whatever text Mathpix recognised, a text of at most ten characters
\* and the empty text included, the job ends in status completed and the
\* request of its result is answered with success and the result
C22_EveryTextGivesAResult ==
    ScanJobEnded /\ ~uploadFileToMathpix(fileType, mathpix).threw
    => /\ scanTask.status = "completed"
       /\ ResultResponse(scanTask).success
       /\ ResultResponse(scanTask).code = 200
       /\ response.code \in {0, 400, 404} \/ response.success

\* the first status other than an unfinished one that the remote job shows,
\* "processing" when it shows none
RECURSIVE FirstTerminal(_)
FirstTerminal(polls) ==
    IF polls = <<>> THEN "processing"
    ELSE IF Head(polls) # "processing" THEN Head(polls)
    ELSE FirstTerminal(Tail(polls))

\* C23: for a PDF whose job id was obtained and whose remote job comes to a
\* terminal status, recognition returns the result text when that status
\* is completed and the content is there, also when the job was unfinished
\* at an earlier poll, and fails only for a terminal error status, a
\* request that failed or content that is not there
C23_PollsUntilTerminalStatus ==
    /\ ScanJobAnswered
    /\ Polled(fileType, mathpix)
    /\ FirstTerminal(mathpix.polls) # "processing"
    => /\ FirstTerminal(mathpix.polls) = "completed"
              /\ getPDFMMDContent(mathpix) # <<>>
          => scanTask.status # "failed" /\ markdown = getPDFMMDContent(mathpix)
       /\ scanTask.status = "failed"
          => \/ FirstTerminal(mathpix.polls) \in {"error", "failed", "rejects"}
             \/ getPDFMMDContent(mathpix) = <<>>

\* the maximal runs of underscores of s, as pairs of first and last position
UnderscoreRuns(s) ==
    {<<a, b>> \in (1..Len(s)) \X (1..Len(s)) :
        /\ a <= b
        /\ \A j \in a..b : s[j] = "_"
        /\ At(s, a - 1) # "_"
        /\ At(s, b + 1) # "_"}

\* C24: the output of the fill converter holds no run of three or more
\* underscores, and no underscore at all when every underscore of the
\* segment stood in a run of three or more, bare or next to dollars
C24_NoBlankMarkerLeft ==
    pc = "returned" /\ questionType = "fill"
    => /\ \A r \in UnderscoreRuns(questionConverted) : r[2] - r[1] + 1 < 3
       /\ (/\ ~Includes(questionClean, <<"\\">>)
           /\ \A r \in UnderscoreRuns(questionClean) : r[2] - r[1] + 1 >= 3)
          => ~Includes(questionConverted, <<"_">>)

-----------------------------------------------------------------------------
(* Further properties of splitQuestions and of the converters.             *)

\* the stretches of the text given to splitQuestions: the content before
\* the first section marker and the content of every section, placeholders
\* in place; the first one is trimmed before it is split
StretchesOf(sections) ==
    [k \in 1..((Len(sections) + 1) \div 2) |->
        IF k = 1 THEN Trim(sections[1].text) ELSE sections[2 * k - 1].text]

\* C25: in section mode, a stretch of more than ten characters without any
\* numbering marker is held whole by one segment, also when other
\* stretches yield segments
C25_SectionWithoutNumberingIsOneSegment ==
    AfterSplit
    => LET prot == ProtectMath(converted)
           stretches == StretchesOf(Split(prot.text, "section"))
       IN  Len(stretches) > 1
           => \A k \in 1..Len(stretches) :
                  /\ Len(Trim(stretches[k])) > MinContentLength
                  /\ Len(RestoreMath(Trim(stretches[k]), prot.list))
                         > MinContentLength
                  /\ MarkerCount(stretches[k], "question") = 0
                  => \E n \in 1..Len(questionSegments) :
                         Includes(questionSegments[n],
                                  RestoreMath(Trim(stretches[k]), prot.list))

\* C26: text of the document that has the form of a placeholder is left as
\* it is: preprocessContent keeps every such token, and the text that
\* splitQuestions restores for a segment is a piece of the text it was given
C26_TokenLikeTextIsKept ==
    /\ pc = "preprocessed"
       => \A token \in {InlineToken, ExponentToken} :
              Occurrences(converted, token) = Occurrences(markdown, token)
    /\ AfterSplit
       => \A n \in 1..Len(segInfo) : Includes(converted, segInfo[n].restored)

\* C27: every entry of the assembled output begins with the item marker
\* \item and none begins with two of them, whichever way the entry was made:
\* by convertQuestion or by the fallback of a conversion that threw
C27_EveryEntryBeginsWithItem ==
    pc \in {"loop", "done"}
    => \A k \in 1..Len(convertedQuestions) :
           /\ StartsWithAt(convertedQuestions[k], 1, ItemMarker)
           /\ ~StartsWithAt(convertedQuestions[k], 1, ItemPrefix \o ItemMarker)

\* the text of a solution segment that precedes its first sub-question
\* marker, without the whitespace around it
TextBeforeMarkers(content) ==
    Trim(SubSeq(content, 1, Least(Markers(content)) - 1))

\* C28: the solution converter never loses the stem: the text that precedes
\* the first sub-question marker of a solution segment occurs in what the
\* converter returns, with one marker and with several
C28_StemIsKept ==
    /\ pc = "returned"
    /\ questionType = "solution"
    /\ Markers(questionClean) # {}
    => Includes(questionConverted, TextBeforeMarkers(questionClean))

\* the terminal statuses of a batch and of a file
Terminal == {"completed", "failed"}

\* p is the mean of the progress values of files fs, rounded to the nearest
\* integer with a half rounded up
IsRoundedMean(p, fs) ==
    /\ 2 * TotalProgress(fs) - Len(fs) < 2 * Len(fs) * p
    /\ 2 * Len(fs) * p <= 2 * TotalProgress(fs) + Len(fs)

\* C29: a batch has a terminal status only when every file of it has one,
\* and then completedFiles + failedFiles = totalFiles and the status is
\* 'completed' exactly when a file is completed; before that the batch's
\* overallProgress is the rounded mean of the progress of its files and
\* lies between 0 and 100
C29_BatchEndsAfterItsFiles ==
    /\ batchTask.status \in Terminal
       => /\ \A t \in 1..Len(files) : files[t].status \in Terminal
          /\ batchTask.completedFiles + batchTask.failedFiles
                 = batchTask.totalFiles
          /\ batchTask.status = "completed"
                 <=> \E t \in 1..Len(files) : files[t].status = "completed"
    /\ batchTask.status \in {"pending", "processing"}
       => /\ IsRoundedMean(batchTask.overallProgress, files)
          /\ batchTask.overallProgress \in 0..100

\* C29 witness: a batch of several files is completed with a file that
\* failed and a file that is completed
C29_Witness ==
    /\ batchTask.status = "completed"
    /\ batchTask.totalFiles > 2
    /\ batchTask.failedFiles > 0
    /\ batchTask.completedFiles > 0
    /\ \E t \in 1..Len(files) : files[t].status = "failed"

\* the changes of status a scan job may make
StatusMoves ==
    {<<"absent", "pending">>, <<"pending", "processing">>,
     <<"processing", "completed">>, <<"processing", "failed">>}

\* what a status says of the other fields of the job
ScanJobConsistent ==
    /\ scanTask.status = "completed"
       => scanTask.progress = 100 /\ scanTask.hasResult
    /\ scanTask.status = "failed"
       => /\ scanTask.hasError
          /\ scanTask.error # <<>>
          /\ ~scanTask.hasResult
    /\ scanTask.progress \in 0..100

\* one step of a scan job
ScanJobStep ==
    /\ scanTask'.status # scanTask.status
       => <<scanTask.status, scanTask'.status>> \in StatusMoves
    /\ scanTask.status \in Terminal
       => /\ scanTask'.status = scanTask.status
          /\ scanTask'.result = scanTask.result
          /\ scanTask'.hasResult = scanTask.hasResult
          /\ scanTask'.error = scanTask.error
          /\ scanTask'.hasError = scanTask.hasError
    /\ scanTask'.progress >= scanTask.progress

\* C30: the status of a scan job only moves pending -> processing ->
\* completed or failed; status, result and error of a completed or failed
\* job never change again, progress never decreases, a completed job has
\* progress 100 and a result, a failed job an error message and no result
C30_ScanJobLifecycle == [][ScanJobStep]_vars /\ []ScanJobConsistent

\* C30 witness: a job that went through processing is completed with a
\* result, and its result was asked for afterwards
C30_Witness ==
    /\ pc = "settled"
    /\ scanTask.status = "completed"
    /\ scanTask.progress = 100
    /\ scanTask.result # <<>>
    /\ response.code = 200

====
